---- MODULE Spec2Model ----
(***************************************************************************)
(* LCSF stack (jean-roland/LCSF_Stack_Rust): the transcoder (byte buffer   *)
(* <-> raw message), the validator (raw message <-> valid command), the    *)
(* error sub-protocol and the dispatch core LcsfCore.                      *)
(***************************************************************************)
EXTENDS Integers, Sequences, FiniteSets, TLC

VARIABLES
    lcsf_mode,      \* LcsfCore.lcsf_mode
    do_gen_err,     \* LcsfCore.do_gen_err
    prot_desc_map,  \* LcsfCore.prot_desc_map: protocol id -> descriptor
    prot_cb_map,    \* LcsfCore.prot_cb_map: protocol id -> callback
    call,           \* the last call made: its function and its arguments
    result,         \* what that call returned (or that it panicked)
    sent,           \* buffers handed to the send hook fn_send during that call
    dispatched      \* protocol callbacks invoked during that call

vars == <<lcsf_mode, do_gen_err, prot_desc_map, prot_cb_map, call, result, sent, dispatched>>

core_vars == <<lcsf_mode, do_gen_err, prot_desc_map, prot_cb_map>>

-----------------------------------------------------------------------------
(* Integer helpers: u8 / u16 arithmetic as the Rust code performs it.      *)

U8Max == 255

U16Max == 65535

Min(a, b) == IF a < b THEN a ELSE b

\* `x as u8`
AsU8(x) == x % 256

\* `x >> 8` on a u16
Shr8(x) == x \div 256

\* `(x & (1 << 7)) != 0`
Bit7(x) == (x \div 128) % 2 = 1

\* `x & !(1 << 7)` and `x & 0x7F` on a byte-sized value
ClearBit7(x) == IF Bit7(x) THEN x - 128 ELSE x

\* `x | 0x80`
SetBit7(x) == IF Bit7(x) THEN x ELSE x + 128

\* iterator helpers: the first n items (fewer if exhausted) and what is left
Take(s, n) == SubSeq(s, 1, Min(n, Len(s)))

Drop(s, n) == SubSeq(s, Min(n, Len(s)) + 1, Len(s))

Modes == {"Small", "Normal"}

-----------------------------------------------------------------------------
(* Raw message types (lcsf_transcoder.rs).                                 *)

\* LcsfRawAttPayload::Data(data)
Data(d) == [kind |-> "Data", data |-> d, arr |-> <<>>]

\* LcsfRawAttPayload::SubattArr(arr)
SubattArr(a) == [kind |-> "SubattArr", data |-> <<>>, arr |-> a]

\* LcsfRawAtt
LcsfRawAtt(f, n, p) == [has_subatt |-> f, payload_size |-> n, payload |-> p]

\* LcsfRawMsg
LcsfRawMsg(p, c, n, a) == [prot_id |-> p, cmd_id |-> c, att_nb |-> n, att_arr |-> a]

Ok(v) == [tag |-> "Ok", val |-> v]

Err(e) == [tag |-> "Err", val |-> e]

None == [tag |-> "None", val |-> <<>>]

Some(v) == [tag |-> "Some", val |-> v]

-----------------------------------------------------------------------------
(* Decoder.  The buffer iterator is the sequence of bytes not yet read;    *)
(* each fetch returns what it read together with the rest.                 *)

fetch_msg_header(mode, buf) ==
    IF mode = "Small"
    THEN IF Len(buf) < 3 THEN None
         ELSE Some([msg  |-> LcsfRawMsg(buf[1], buf[2], buf[3], <<>>),
                    rest |-> Drop(buf, 3)])
    ELSE IF Len(buf) < 6 THEN None
         ELSE Some([msg  |-> LcsfRawMsg(buf[1] + buf[2] * 256,
                                        buf[3] + buf[4] * 256,
                                        buf[5] + buf[6] * 256, <<>>),
                    rest |-> Drop(buf, 6)])

\* fetch_att_header keeping the sub-attribute flag in the id
fetch_att_header_keeps_flag(mode, buf) ==
    IF mode = "Small"
    THEN IF Len(buf) < 2 THEN None
         ELSE Some([id   |-> buf[1],
                    att  |-> LcsfRawAtt(Bit7(buf[1]), buf[2], Data(<<>>)),
                    rest |-> Drop(buf, 2)])
    ELSE IF Len(buf) < 4 THEN None
         ELSE Some([id   |-> buf[1] + buf[2] * 256,
                    att  |-> LcsfRawAtt(Bit7(buf[2]), buf[3] + buf[4] * 256, Data(<<>>)),
                    rest |-> Drop(buf, 4)])

fetch_att_header(mode, buf) ==
    IF mode = "Small"
    THEN IF Len(buf) < 2 THEN None
         ELSE Some([id   |-> ClearBit7(buf[1]),
                    att  |-> LcsfRawAtt(Bit7(buf[1]), buf[2], Data(<<>>)),
                    rest |-> Drop(buf, 2)])
    ELSE IF Len(buf) < 4 THEN None
         ELSE Some([id   |-> buf[1] + ClearBit7(buf[2]) * 256,
                    att  |-> LcsfRawAtt(Bit7(buf[2]), buf[3] + buf[4] * 256, Data(<<>>)),
                    rest |-> Drop(buf, 4)])

\* decode_data without the check of the number of bytes taken
decode_data_unchecked(hdr) ==
    Ok([id   |-> hdr.id,
        att  |-> [hdr.att EXCEPT !.payload = Data(Take(hdr.rest, hdr.att.payload_size))],
        rest |-> Drop(hdr.rest, hdr.att.payload_size)])

\* the leaf branch of decode_att_rec: take payload_size bytes from the iterator
decode_data(hdr) ==
    LET data == Take(hdr.rest, hdr.att.payload_size)
    IN  IF Len(data) # hdr.att.payload_size
        THEN Err("FormatErr")
        ELSE Ok([id   |-> hdr.id,
                 att  |-> [hdr.att EXCEPT !.payload = Data(data)],
                 rest |-> Drop(hdr.rest, hdr.att.payload_size)])

RECURSIVE decode_att_rec(_, _), decode_att_loop(_, _, _, _)

\* `for _ in 0..n { let (id, att) = decode_att_rec(mode, iter)?; arr.push((id, att)); }`
decode_att_loop(mode, n, buf, acc) ==
    IF n = 0 THEN Ok([arr |-> acc, rest |-> buf])
    ELSE LET r == decode_att_rec(mode, buf)
         IN  IF r.tag = "Err" THEN r
             ELSE decode_att_loop(mode, n - 1, r.val.rest,
                                  Append(acc, <<r.val.id, r.val.att>>))

decode_att_rec(mode, buf) ==
    LET h == fetch_att_header(mode, buf)
    IN  IF h.tag = "None" THEN Err("FormatErr")
        ELSE IF h.val.att.has_subatt
             THEN LET sub == decode_att_loop(mode, h.val.att.payload_size, h.val.rest, <<>>)
                  IN  IF sub.tag = "Err" THEN sub
                      ELSE Ok([id   |-> h.val.id,
                               att  |-> [h.val.att EXCEPT !.payload = SubattArr(sub.val.arr)],
                               rest |-> sub.val.rest])
             ELSE decode_data(h.val)

\* decode_buff without the check for unused leftover data
decode_buff_keeps_leftover(mode, buffer) ==
    LET h == fetch_msg_header(mode, buffer)
    IN  IF h.tag = "None" THEN Err("FormatErr")
        ELSE LET atts == decode_att_loop(mode, h.val.msg.att_nb, h.val.rest, <<>>)
             IN  IF atts.tag = "Err" THEN atts
                 ELSE Ok([h.val.msg EXCEPT !.att_arr = atts.val.arr])

\* decode_buff that refuses a message of more than 8 attributes as too large
decode_buff_bounded(mode, buffer) ==
    LET h == fetch_msg_header(mode, buffer)
    IN  IF h.tag = "None" THEN Err("FormatErr")
        ELSE IF h.val.msg.att_nb > 8 THEN Err("OverflowErr")
        ELSE LET atts == decode_att_loop(mode, h.val.msg.att_nb, h.val.rest, <<>>)
             IN  IF atts.tag = "Err" THEN atts
                 ELSE IF atts.val.rest # <<>> THEN Err("FormatErr")
                 ELSE Ok([h.val.msg EXCEPT !.att_arr = atts.val.arr])

decode_buff(mode, buffer) ==
    LET h == fetch_msg_header(mode, buffer)
    IN  IF h.tag = "None" THEN Err("FormatErr")
        ELSE LET atts == decode_att_loop(mode, h.val.msg.att_nb, h.val.rest, <<>>)
             IN  IF atts.tag = "Err" THEN atts
                 ELSE IF atts.val.rest # <<>> THEN Err("FormatErr")
                 ELSE Ok([h.val.msg EXCEPT !.att_arr = atts.val.arr])

-----------------------------------------------------------------------------
(* Encoder.                                                                *)

\* fill_msg_header that writes the Normal fields most significant byte first
fill_msg_header_big_endian(mode, msg) ==
    IF mode = "Small"
    THEN <<AsU8(msg.prot_id), AsU8(msg.cmd_id), AsU8(msg.att_nb)>>
    ELSE <<AsU8(Shr8(msg.prot_id)), AsU8(msg.prot_id),
           AsU8(Shr8(msg.cmd_id)), AsU8(msg.cmd_id),
           AsU8(Shr8(msg.att_nb)), AsU8(msg.att_nb)>>

fill_msg_header(mode, msg) ==
    IF mode = "Small"
    THEN <<AsU8(msg.prot_id), AsU8(msg.cmd_id), AsU8(msg.att_nb)>>
    ELSE <<AsU8(msg.prot_id), AsU8(Shr8(msg.prot_id)),
           AsU8(msg.cmd_id), AsU8(Shr8(msg.cmd_id)),
           AsU8(msg.att_nb), AsU8(Shr8(msg.att_nb))>>

\* fill_att_header that never writes the sub-attribute flag
fill_att_header_no_flag(mode, att_id, att) ==
    IF mode = "Small"
    THEN <<ClearBit7(AsU8(att_id)), AsU8(att.payload_size)>>
    ELSE <<AsU8(att_id), ClearBit7(AsU8(Shr8(att_id))),
           AsU8(att.payload_size), AsU8(Shr8(att.payload_size))>>

fill_att_header(mode, att_id, att) ==
    IF mode = "Small"
    THEN << (IF att.has_subatt THEN SetBit7(AsU8(att_id)) ELSE ClearBit7(AsU8(att_id))),
            AsU8(att.payload_size) >>
    ELSE << AsU8(att_id),
            (IF att.has_subatt THEN SetBit7(AsU8(Shr8(att_id)))
                               ELSE ClearBit7(AsU8(Shr8(att_id)))),
            AsU8(att.payload_size), AsU8(Shr8(att.payload_size)) >>

RECURSIVE encode_att_rec(_, _, _), encode_att_loop(_, _)

\* `for (id, att) in arr { buffer.extend(encode_att_rec(mode, *id, att)); }`
encode_att_loop(mode, arr) ==
    IF arr = <<>> THEN <<>>
    ELSE encode_att_rec(mode, arr[1][1], arr[1][2]) \o encode_att_loop(mode, Tail(arr))

encode_att_rec(mode, att_id, att) ==
    IF att.payload_size = 0 THEN <<>>
    ELSE fill_att_header(mode, att_id, att)
         \o (IF att.payload.kind = "Data"
             THEN att.payload.data
             ELSE encode_att_loop(mode, att.payload.arr))

encode_buff(mode, msg) ==
    fill_msg_header(mode, msg) \o encode_att_loop(mode, msg.att_arr)

-----------------------------------------------------------------------------
(* Validator types (lcsf_validator.rs).                                    *)

\* LcsfDataType
LcsfDataType == {"Uint8", "Uint16", "Uint32", "ByteArray", "String", "Subattributes"}

\* LcsfAttDesc
LcsfAttDesc(opt, type, sub) ==
    [is_optional |-> opt, data_type |-> type, subatt_desc_arr |-> sub]

\* LcsfCmdDesc
LcsfCmdDesc(atts) == [att_desc_arr |-> atts]

\* LcsfProtDesc
LcsfProtDesc(cmds) == [cmd_desc_arr |-> cmds]

\* LcsfValidAttPayload::Data(data)
ValidData(d) == [kind |-> "Data", data |-> d, arr |-> <<>>]

\* LcsfValidAttPayload::SubattArr(arr)
ValidSubattArr(a) == [kind |-> "SubattArr", data |-> <<>>, arr |-> a]

\* LcsfValidAtt
LcsfValidAtt(p) == [payload |-> p]

\* LcsfValidCmd
LcsfValidCmd(c, a) == [cmd_id |-> c, att_arr |-> a]

\* `x as u16`
AsU16(x) == x % 65536


\* a lookup that keeps the first tuple with the key
MapIndexFirst(arr, key) ==
    LET hits == {i \in 1..Len(arr) : arr[i][1] = key}
    IN  IF hits = {} THEN 0 ELSE CHOOSE i \in hits : \A j \in hits : i <= j

\* HashMap<u16, _> collected from an array of (key, value) tuples and looked up:
\* the index of the last tuple with that key (a later insert replaces an
\* earlier one), 0 when there is none
MapIndex(arr, key) ==
    LET hits == {i \in 1..Len(arr) : arr[i][1] = key}
    IN  IF hits = {} THEN 0 ELSE CHOOSE i \in hits : \A j \in hits : j <= i

-----------------------------------------------------------------------------
(* Protocol descriptors: the static LcsfProtDesc values that a protocol    *)
(* table refers to (&'static LcsfProtDesc), named by strings.              *)

\* TEST_PROT_DESC of lcsf_validator.rs
TEST_PROT_DESC ==
    LcsfProtDesc(<< <<18, LcsfCmdDesc(
        << <<85, LcsfAttDesc(FALSE, "ByteArray", <<>>)>>,
           <<127, LcsfAttDesc(FALSE, "Subattributes",
                << <<48, LcsfAttDesc(FALSE, "Uint8", <<>>)>>,
                   <<49, LcsfAttDesc(FALSE, "Subattributes",
                        << <<50, LcsfAttDesc(TRUE, "String", <<>>)>> >>)>> >>)>>,
           <<64, LcsfAttDesc(TRUE, "Uint16", <<>>)>> >>)>> >>)

\* TEST_PROT_DESC of lcsf_core.rs: one command without attributes
CORE_TEST_PROT_DESC == LcsfProtDesc(<< <<18, LcsfCmdDesc(<<>>)>> >>)


\* an error descriptor with the location attribute only
LCSF_EP_PROT_DESC_loc_only ==
    LcsfProtDesc(<< <<0, LcsfCmdDesc(
        << <<0, LcsfAttDesc(FALSE, "Uint8", <<>>)>> >>)>> >>)

\* LCSF_EP_PROT_DESC of lcsf_error.rs
LCSF_EP_PROT_DESC ==
    LcsfProtDesc(<< <<0, LcsfCmdDesc(
        << <<0, LcsfAttDesc(FALSE, "Uint8", <<>>)>>,
           <<1, LcsfAttDesc(FALSE, "Uint8", <<>>)>> >>)>> >>)

\* descriptors supplied by the application: a mandatory and an optional
\* attribute, a node with a mandatory and an optional child (command 1); a
\* mandatory node whose only child is optional (command 2)
APP_PROT_DESC ==
    LcsfProtDesc(
        << <<1, LcsfCmdDesc(
               << <<1, LcsfAttDesc(FALSE, "Uint8", <<>>)>>,
                  <<2, LcsfAttDesc(TRUE, "Subattributes",
                       << <<1, LcsfAttDesc(FALSE, "Uint16", <<>>)>>,
                          <<3, LcsfAttDesc(TRUE, "ByteArray", <<>>)>> >>)>> >>)>>,
           <<2, LcsfCmdDesc(
               << <<2, LcsfAttDesc(FALSE, "Subattributes",
                       << <<3, LcsfAttDesc(TRUE, "ByteArray", <<>>)>> >>)>> >>)>> >>)

\* a descriptor that lists the attribute id 1 twice
DUP_PROT_DESC ==
    LcsfProtDesc(
        << <<1, LcsfCmdDesc(
               << <<1, LcsfAttDesc(FALSE, "Uint8", <<>>)>>,
                  <<1, LcsfAttDesc(TRUE, "Uint8", <<>>)>> >>)>> >>)

\* a descriptor with a mandatory attribute followed by two optional ones, a
\* scalar and a node
OPT_PROT_DESC ==
    LcsfProtDesc(
        << <<1, LcsfCmdDesc(
               << <<1, LcsfAttDesc(FALSE, "Uint8", <<>>)>>,
                  <<2, LcsfAttDesc(TRUE, "Uint16", <<>>)>>,
                  <<3, LcsfAttDesc(TRUE, "Subattributes",
                       << <<1, LcsfAttDesc(FALSE, "Uint8", <<>>)>>,
                          <<2, LcsfAttDesc(TRUE, "Uint8", <<>>)>> >>)>> >>)>> >>)

\* a descriptor that lists the attribute id 1 twice, as a mandatory scalar and
\* as an optional node
MIX_PROT_DESC ==
    LcsfProtDesc(
        << <<1, LcsfCmdDesc(
               << <<1, LcsfAttDesc(FALSE, "Uint8", <<>>)>>,
                  <<1, LcsfAttDesc(TRUE, "Subattributes",
                       << <<1, LcsfAttDesc(FALSE, "Uint8", <<>>)>> >>)>> >>)>> >>)

ProtDescNames ==
    {"TEST_PROT_DESC", "CORE_TEST_PROT_DESC", "LCSF_EP_PROT_DESC", "APP_PROT_DESC",
     "DUP_PROT_DESC", "OPT_PROT_DESC", "MIX_PROT_DESC"}

\* dereference of a &'static LcsfProtDesc
Deref(name) ==
    CASE name = "TEST_PROT_DESC" -> TEST_PROT_DESC
      [] name = "CORE_TEST_PROT_DESC" -> CORE_TEST_PROT_DESC
      [] name = "LCSF_EP_PROT_DESC" -> LCSF_EP_PROT_DESC
      [] name = "APP_PROT_DESC" -> APP_PROT_DESC
      [] name = "DUP_PROT_DESC" -> DUP_PROT_DESC
      [] name = "OPT_PROT_DESC" -> OPT_PROT_DESC
      [] name = "MIX_PROT_DESC" -> MIX_PROT_DESC

-----------------------------------------------------------------------------
(* Validate raw.                                                           *)

\* validate_data_type that takes the size of a type for a minimum
validate_data_type_at_least(data_size, data_type) ==
    CASE data_type = "Uint8" -> data_size >= 1
      [] data_type = "Uint16" -> data_size >= 2
      [] data_type = "Uint32" -> data_size >= 4
      [] data_type = "ByteArray" -> data_size > 0
      [] data_type = "String" -> data_size > 0
      [] OTHER -> FALSE

validate_data_type(data_size, data_type) ==
    CASE data_type = "Uint8" -> data_size = 1
      [] data_type = "Uint16" -> data_size = 2
      [] data_type = "Uint32" -> data_size = 4
      [] data_type = "ByteArray" -> data_size > 0
      [] data_type = "String" -> data_size > 0
      [] OTHER -> FALSE

RECURSIVE validate_att_rec(_, _, _), validate_att_loop(_, _, _, _)

\* validate_att_rec that takes every absent attribute for an optional one
validate_att_rec_absent_is_optional(att_id, att_desc, rx_att_arr) ==
    LET idx    == MapIndex(rx_att_arr, att_id)
        rx_att == rx_att_arr[idx][2]
        empty  == Ok([size |-> 0, att |-> LcsfValidAtt(ValidData(<<>>))])
    IN  IF idx = 0 THEN empty
        ELSE IF att_desc.data_type = "Subattributes"
        THEN IF ~rx_att.has_subatt THEN Err("WrongAttDataType")
             ELSE IF rx_att.payload.kind # "SubattArr" THEN empty
             ELSE IF Len(rx_att.payload.arr) > Len(att_desc.subatt_desc_arr)
                  THEN Err("TooManyAtt")
             ELSE LET sub == validate_att_loop(att_desc.subatt_desc_arr,
                                               rx_att.payload.arr, <<>>, 0)
                  IN  IF sub.tag = "Err" THEN sub
                      ELSE IF sub.val.count < Len(rx_att.payload.arr)
                           THEN Err("UnknownAttId")
                      ELSE Ok([size |-> Len(sub.val.arr),
                               att  |-> LcsfValidAtt(ValidSubattArr(sub.val.arr))])
        ELSE IF ~validate_data_type(rx_att.payload_size, att_desc.data_type)
             THEN Err("WrongAttDataType")
             ELSE IF rx_att.payload.kind = "Data"
                  THEN Ok([size |-> Len(rx_att.payload.data),
                           att  |-> LcsfValidAtt(ValidData(rx_att.payload.data))])
                  ELSE empty

\* the descriptor loop that pushes nothing for an absent attribute
validate_att_loop_omits_absent(desc_arr, rx_att_arr, acc, count) ==
    IF desc_arr = <<>> THEN Ok([arr |-> acc, count |-> count])
    ELSE LET r == validate_att_rec(desc_arr[1][1], desc_arr[1][2], rx_att_arr)
         IN  IF r.tag = "Err" THEN r
             ELSE validate_att_loop(Tail(desc_arr), rx_att_arr,
                                    IF r.val.size > 0 THEN Append(acc, r.val.att) ELSE acc,
                                    IF r.val.size > 0 THEN count + 1 ELSE count)

\* the descriptor loop that counts every descriptor as matched
validate_att_loop_counts_all(desc_arr, rx_att_arr, acc, count) ==
    IF desc_arr = <<>> THEN Ok([arr |-> acc, count |-> count])
    ELSE LET r == validate_att_rec(desc_arr[1][1], desc_arr[1][2], rx_att_arr)
         IN  IF r.tag = "Err" THEN r
             ELSE validate_att_loop(Tail(desc_arr), rx_att_arr,
                                    Append(acc, r.val.att), count + 1)

\* `for (id, desc) in desc_arr { let (size, att) = validate_att_rec(*id, desc, rx_arr)?;
\*  arr.push(att); if size > 0 { count += 1; } }`
validate_att_loop(desc_arr, rx_att_arr, acc, count) ==
    IF desc_arr = <<>> THEN Ok([arr |-> acc, count |-> count])
    ELSE LET r == validate_att_rec(desc_arr[1][1], desc_arr[1][2], rx_att_arr)
         IN  IF r.tag = "Err" THEN r
             ELSE validate_att_loop(Tail(desc_arr), rx_att_arr,
                                    Append(acc, r.val.att),
                                    IF r.val.size > 0 THEN count + 1 ELSE count)

validate_att_rec(att_id, att_desc, rx_att_arr) ==
    LET idx    == MapIndex(rx_att_arr, att_id)
        rx_att == rx_att_arr[idx][2]
        empty  == Ok([size |-> 0, att |-> LcsfValidAtt(ValidData(<<>>))])
    IN  IF idx = 0
        THEN IF ~att_desc.is_optional THEN Err("MissMandatoryAtt") ELSE empty
        ELSE IF att_desc.data_type = "Subattributes"
        THEN IF ~rx_att.has_subatt THEN Err("WrongAttDataType")
             ELSE IF rx_att.payload.kind # "SubattArr" THEN empty
             ELSE IF Len(rx_att.payload.arr) > Len(att_desc.subatt_desc_arr)
                  THEN Err("TooManyAtt")
             ELSE LET sub == validate_att_loop(att_desc.subatt_desc_arr,
                                               rx_att.payload.arr, <<>>, 0)
                  IN  IF sub.tag = "Err" THEN sub
                      ELSE IF sub.val.count < Len(rx_att.payload.arr)
                           THEN Err("UnknownAttId")
                      ELSE Ok([size |-> Len(sub.val.arr),
                               att  |-> LcsfValidAtt(ValidSubattArr(sub.val.arr))])
        ELSE IF ~validate_data_type(rx_att.payload_size, att_desc.data_type)
             THEN Err("WrongAttDataType")
             ELSE IF rx_att.payload.kind = "Data"
                  THEN Ok([size |-> Len(rx_att.payload.data),
                           att  |-> LcsfValidAtt(ValidData(rx_att.payload.data))])
                  ELSE empty

\* validate_msg that looks for the command before the protocol is known
validate_msg_one_lookup(desc_map, rx_msg) ==
    LET known        == rx_msg.prot_id \in DOMAIN desc_map
        cmd_desc_arr == IF known THEN Deref(desc_map[rx_msg.prot_id]).cmd_desc_arr ELSE <<>>
        cidx         == MapIndex(cmd_desc_arr, rx_msg.cmd_id)
        cmd_desc     == cmd_desc_arr[cidx][2]
    IN  IF cidx = 0 THEN Err("UnknownCmdId")
        ELSE IF Len(rx_msg.att_arr) > Len(cmd_desc.att_desc_arr) THEN Err("TooManyAtt")
        ELSE LET atts == validate_att_loop(cmd_desc.att_desc_arr, rx_msg.att_arr, <<>>, 0)
             IN  IF atts.tag = "Err" THEN atts
                 ELSE IF atts.val.count < Len(rx_msg.att_arr) THEN Err("UnknownAttId")
                 ELSE Ok([cmd |-> LcsfValidCmd(rx_msg.cmd_id, atts.val.arr),
                          prot_id |-> rx_msg.prot_id])

\* validate_msg without the limit on the number of attributes
validate_msg_no_limit(desc_map, rx_msg) ==
    IF rx_msg.prot_id \notin DOMAIN desc_map THEN Err("UnknownProtId")
    ELSE LET cmd_desc_arr == Deref(desc_map[rx_msg.prot_id]).cmd_desc_arr
             cidx         == MapIndex(cmd_desc_arr, rx_msg.cmd_id)
             cmd_desc     == cmd_desc_arr[cidx][2]
         IN  IF cidx = 0 THEN Err("UnknownCmdId")
             ELSE LET atts == validate_att_loop(cmd_desc.att_desc_arr, rx_msg.att_arr, <<>>, 0)
                  IN  IF atts.tag = "Err" THEN atts
                      ELSE IF atts.val.count < Len(rx_msg.att_arr) THEN Err("UnknownAttId")
                      ELSE Ok([cmd |-> LcsfValidCmd(rx_msg.cmd_id, atts.val.arr),
                               prot_id |-> rx_msg.prot_id])

\* validate_msg without the count of the attributes recognised
validate_msg_no_unknown_check(desc_map, rx_msg) ==
    IF rx_msg.prot_id \notin DOMAIN desc_map THEN Err("UnknownProtId")
    ELSE LET cmd_desc_arr == Deref(desc_map[rx_msg.prot_id]).cmd_desc_arr
             cidx         == MapIndex(cmd_desc_arr, rx_msg.cmd_id)
             cmd_desc     == cmd_desc_arr[cidx][2]
         IN  IF cidx = 0 THEN Err("UnknownCmdId")
             ELSE IF Len(rx_msg.att_arr) > Len(cmd_desc.att_desc_arr) THEN Err("TooManyAtt")
             ELSE LET atts == validate_att_loop(cmd_desc.att_desc_arr, rx_msg.att_arr, <<>>, 0)
                  IN  IF atts.tag = "Err" THEN atts
                      ELSE Ok([cmd |-> LcsfValidCmd(rx_msg.cmd_id, atts.val.arr),
                               prot_id |-> rx_msg.prot_id])

RECURSIVE InWireOrder(_, _)
\* the descriptors of the attributes received, in the order they were
\* received, then the others
InWireOrder(desc_arr, rx_att_arr) ==
    IF rx_att_arr = <<>> THEN desc_arr
    ELSE LET i == MapIndex(desc_arr, rx_att_arr[1][1])
         IN  IF i = 0 THEN InWireOrder(desc_arr, Tail(rx_att_arr))
             ELSE <<desc_arr[i]>>
                  \o InWireOrder(SubSeq(desc_arr, 1, i - 1)
                                     \o SubSeq(desc_arr, i + 1, Len(desc_arr)),
                                 Tail(rx_att_arr))

\* validate_msg that walks the attributes in the order they were received
validate_msg_wire_order(desc_map, rx_msg) ==
    IF rx_msg.prot_id \notin DOMAIN desc_map THEN Err("UnknownProtId")
    ELSE LET cmd_desc_arr == Deref(desc_map[rx_msg.prot_id]).cmd_desc_arr
             cidx         == MapIndex(cmd_desc_arr, rx_msg.cmd_id)
             cmd_desc     == cmd_desc_arr[cidx][2]
         IN  IF cidx = 0 THEN Err("UnknownCmdId")
             ELSE IF Len(rx_msg.att_arr) > Len(cmd_desc.att_desc_arr) THEN Err("TooManyAtt")
             ELSE LET atts == validate_att_loop(InWireOrder(cmd_desc.att_desc_arr,
                                                            rx_msg.att_arr),
                                                rx_msg.att_arr, <<>>, 0)
                  IN  IF atts.tag = "Err" THEN atts
                      ELSE IF atts.val.count < Len(rx_msg.att_arr) THEN Err("UnknownAttId")
                      ELSE Ok([cmd |-> LcsfValidCmd(rx_msg.cmd_id, atts.val.arr),
                               prot_id |-> rx_msg.prot_id])

validate_msg(desc_map, rx_msg) ==
    IF rx_msg.prot_id \notin DOMAIN desc_map THEN Err("UnknownProtId")
    ELSE LET cmd_desc_arr == Deref(desc_map[rx_msg.prot_id]).cmd_desc_arr
             cidx         == MapIndex(cmd_desc_arr, rx_msg.cmd_id)
             cmd_desc     == cmd_desc_arr[cidx][2]
         IN  IF cidx = 0 THEN Err("UnknownCmdId")
             ELSE IF Len(rx_msg.att_arr) > Len(cmd_desc.att_desc_arr) THEN Err("TooManyAtt")
             ELSE LET atts == validate_att_loop(cmd_desc.att_desc_arr, rx_msg.att_arr, <<>>, 0)
                  IN  IF atts.tag = "Err" THEN atts
                      ELSE IF atts.val.count < Len(rx_msg.att_arr) THEN Err("UnknownAttId")
                      ELSE Ok([cmd |-> LcsfValidCmd(rx_msg.cmd_id, atts.val.arr),
                               prot_id |-> rx_msg.prot_id])

-----------------------------------------------------------------------------
(* Encode valid.                                                           *)

\* cnt_non_empty_att counting the empty attributes too
cnt_non_empty_att_counts_all(att_arr) == Len(att_arr)

cnt_non_empty_att(att_arr) ==
    Cardinality({i \in 1..Len(att_arr) :
        IF att_arr[i].payload.kind = "SubattArr"
        THEN att_arr[i].payload.arr # <<>>
        ELSE att_arr[i].payload.data # <<>>})

\* the raw attribute that fill_att_info and fill_att_rec start from
EmptyRawAtt == LcsfRawAtt(FALSE, 0, Data(<<>>))

fill_att_info(data_type, valid_att) ==
    IF data_type = "Subattributes"
    THEN IF valid_att.payload.kind = "SubattArr"
         THEN IF valid_att.payload.arr = <<>> THEN None
              ELSE Some(LcsfRawAtt(TRUE, cnt_non_empty_att(valid_att.payload.arr),
                                   SubattArr(<<>>)))
         ELSE Some(EmptyRawAtt)
    ELSE IF valid_att.payload.kind = "Data"
         THEN IF validate_data_type(Len(valid_att.payload.data), data_type)
              THEN Some(LcsfRawAtt(FALSE, AsU16(Len(valid_att.payload.data)),
                                   Data(valid_att.payload.data)))
              ELSE None
         ELSE Some(EmptyRawAtt)

RECURSIVE fill_att_rec(_, _), fill_att_loop(_, _, _)

\* `for (idx, valid_att) in valid_arr.iter().enumerate() { let (id, desc) = desc_arr.get(idx)?;
\*  raw_arr.push((*id, fill_att_rec(desc, valid_att)?)); }`
fill_att_loop(desc_arr, valid_arr, acc) ==
    IF valid_arr = <<>> THEN Some(acc)
    ELSE IF desc_arr = <<>> THEN None
    ELSE LET r == fill_att_rec(desc_arr[1][2], valid_arr[1])
         IN  IF r.tag = "None" THEN None
             ELSE fill_att_loop(Tail(desc_arr), Tail(valid_arr),
                                Append(acc, <<desc_arr[1][1], r.val>>))

fill_att_rec(att_desc, valid_att) ==
    IF att_desc.data_type = "Subattributes"
    THEN IF valid_att.payload.kind = "SubattArr"
         THEN IF valid_att.payload.arr = <<>>
              THEN IF ~att_desc.is_optional THEN None ELSE Some(EmptyRawAtt)
              ELSE IF Len(valid_att.payload.arr) # Len(att_desc.subatt_desc_arr) THEN None
              ELSE LET info == fill_att_info(att_desc.data_type, valid_att)
                       subs == fill_att_loop(att_desc.subatt_desc_arr,
                                             valid_att.payload.arr, <<>>)
                   IN  IF info.tag = "None" \/ subs.tag = "None" THEN None
                       ELSE Some([info.val EXCEPT !.payload = SubattArr(subs.val)])
         ELSE Some(EmptyRawAtt)
    ELSE IF valid_att.payload.kind = "Data"
         THEN IF valid_att.payload.data = <<>>
              THEN IF ~att_desc.is_optional THEN None ELSE Some(EmptyRawAtt)
              ELSE fill_att_info(att_desc.data_type, valid_att)
         ELSE Some(EmptyRawAtt)

encode_valid(prot_id, cmd_desc, valid_cmd) ==
    IF Len(valid_cmd.att_arr) # Len(cmd_desc.att_desc_arr) THEN None
    ELSE LET atts == fill_att_loop(cmd_desc.att_desc_arr, valid_cmd.att_arr, <<>>)
         IN  IF atts.tag = "None" THEN None
             ELSE Some(LcsfRawMsg(prot_id, valid_cmd.cmd_id,
                                  cnt_non_empty_att(valid_cmd.att_arr), atts.val))

-----------------------------------------------------------------------------
(* Test vectors of lcsf_transcoder.rs.                                     *)

RX_MSG_SMALL ==
    <<171, 18, 3, 85, 5, 0, 1, 2, 3, 4, 255, 2, 48, 1, 10,
      177, 1, 50, 13, 79, 114, 103, 97, 110, 111, 108, 101, 112, 116, 105,
      99, 0, 64, 2, 171, 205>>

RX_MSG_NORMAL ==
    <<171, 0, 18, 0, 3, 0, 85, 0, 5, 0, 0, 1, 2, 3, 4,
      127, 128, 2, 0, 48, 0, 1, 0, 10, 49, 128, 1, 0, 50, 0,
      13, 0, 79, 114, 103, 97, 110, 111, 108, 101, 112, 116, 105, 99, 0,
      64, 0, 2, 0, 171, 205>>

TEST_RAW_MSG ==
    LcsfRawMsg(171, 18, 3,
        << <<85, LcsfRawAtt(FALSE, 5, Data(<<0, 1, 2, 3, 4>>))>>,
           <<127, LcsfRawAtt(TRUE, 2, SubattArr(
                << <<48, LcsfRawAtt(FALSE, 1, Data(<<10>>))>>,
                   <<49, LcsfRawAtt(TRUE, 1, SubattArr(
                        << <<50, LcsfRawAtt(FALSE, 13, Data(
                             <<79, 114, 103, 97, 110, 111, 108, 101, 112, 116, 105, 99, 0>>))>> >>))>> >>))>>,
           <<64, LcsfRawAtt(FALSE, 2, Data(<<171, 205>>))>> >>)

(* Test data of lcsf_validator.rs.                                         *)

TEST_VALID_CMD ==
    LcsfValidCmd(18,
        << LcsfValidAtt(ValidData(<<0, 1, 2, 3, 4>>)),
           LcsfValidAtt(ValidSubattArr(
                << LcsfValidAtt(ValidData(<<10>>)),
                   LcsfValidAtt(ValidSubattArr(
                        << LcsfValidAtt(ValidData(
                             <<79, 114, 103, 97, 110, 111, 108, 101, 112, 116, 105, 99, 0>>)) >>)) >>)),
           LcsfValidAtt(ValidData(<<171, 205>>)) >>)

-----------------------------------------------------------------------------
(* Error sub-protocol (lcsf_error.rs).                                     *)

LCSF_EP_PROT_ID_NORMAL == 65535

LCSF_EP_PROT_ID_SMALL == 255

\* LcsfEpLocEnum as u8
DecodeError == 0

ValidationError == 1

LCSF_EP_ERR_CMD_ID == 0

LCSF_EP_LOC_ATT_ID == 0

LCSF_EP_TYPE_ATT_ID == 1

LCSF_EP_ERR_CMD_ATT_NB == 2

\* LcsfDecodeErrorEnum as u8
DecodeErrCode(err) ==
    CASE err = "FormatErr" -> 0
      [] err = "OverflowErr" -> 1

\* LcsfValidateErrorEnum as u8
ValidateErrCode(err) ==
    CASE err = "UnknownProtId" -> 0
      [] err = "UnknownCmdId" -> 1
      [] err = "UnknownAttId" -> 2
      [] err = "TooManyAtt" -> 3
      [] err = "MissMandatoryAtt" -> 4
      [] err = "WrongAttDataType" -> 5

\* encode_error with the two payloads exchanged
encode_error_swapped(mode, error_loc, error_type) ==
    LET prot_id == IF mode = "Small" THEN LCSF_EP_PROT_ID_SMALL ELSE LCSF_EP_PROT_ID_NORMAL
        error_msg ==
            LcsfRawMsg(prot_id, LCSF_EP_ERR_CMD_ID, LCSF_EP_ERR_CMD_ATT_NB,
                << <<LCSF_EP_LOC_ATT_ID, LcsfRawAtt(FALSE, 1, Data(<<error_type>>))>>,
                   <<LCSF_EP_TYPE_ATT_ID, LcsfRawAtt(FALSE, 1, Data(<<error_loc>>))>> >>)
    IN  encode_buff(mode, error_msg)

encode_error(mode, error_loc, error_type) ==
    LET prot_id == IF mode = "Small" THEN LCSF_EP_PROT_ID_SMALL ELSE LCSF_EP_PROT_ID_NORMAL
        error_msg ==
            LcsfRawMsg(prot_id, LCSF_EP_ERR_CMD_ID, LCSF_EP_ERR_CMD_ATT_NB,
                << <<LCSF_EP_LOC_ATT_ID, LcsfRawAtt(FALSE, 1, Data(<<error_loc>>))>>,
                   <<LCSF_EP_TYPE_ATT_ID, LcsfRawAtt(FALSE, 1, Data(<<error_type>>))>> >>)
    IN  encode_buff(mode, error_msg)

-----------------------------------------------------------------------------
(* The dispatch core (lcsf_core.rs).  Callbacks are functions of the       *)
(* application, named by strings; an invoked callback is recorded with the *)
(* command it was given.  fn_send is recorded the same way.                *)

NoCall == [fn |-> "none"]

\* a call that returned v, and one that panicked (an unwrap of None)
Returned(v) == [tag |-> "Returned", val |-> v]

Panicked == [tag |-> "Panic", val |-> <<>>]

\* the unit value ()
Unit == <<>>

\* HashMap::insert
Insert(map, key, value) ==
    [k \in DOMAIN map \cup {key} |-> IF k = key THEN value ELSE map[k]]

\* the error protocol id chosen by LcsfCore::new and update_err_cb
err_prot_id(mode) ==
    IF mode = "Small" THEN LCSF_EP_PROT_ID_SMALL ELSE LCSF_EP_PROT_ID_NORMAL

\* LcsfCore::new
new(mode, gen_err) ==
    /\ do_gen_err = gen_err
    /\ lcsf_mode = mode
    /\ prot_desc_map = (err_prot_id(mode) :> "LCSF_EP_PROT_DESC")
    /\ prot_cb_map = (err_prot_id(mode) :> "def_process_error")
    /\ call = NoCall
    /\ result = Unit
    /\ sent = <<>>
    /\ dispatched = <<>>

\* &self
self ==
    [do_gen_err |-> do_gen_err, lcsf_mode |-> lcsf_mode,
     prot_desc_map |-> prot_desc_map, prot_cb_map |-> prot_cb_map]

\* update_err_cb: the maps it leaves
update_err_cb(core, new_err_cb) ==
    [prot_desc_map |-> core.prot_desc_map,
     prot_cb_map   |-> Insert(core.prot_cb_map, err_prot_id(core.lcsf_mode), new_err_cb)]

\* add_protocol that registers the descriptor and forgets the callback
add_protocol_desc_only(core, prot_id, prot_desc, prot_cb) ==
    [prot_desc_map |-> Insert(core.prot_desc_map, prot_id, prot_desc),
     prot_cb_map   |-> core.prot_cb_map]

\* add_protocol that keeps an earlier registration of the id
add_protocol_keeps_old(core, prot_id, prot_desc, prot_cb) ==
    IF prot_id \in DOMAIN core.prot_desc_map
    THEN [prot_desc_map |-> core.prot_desc_map, prot_cb_map |-> core.prot_cb_map]
    ELSE [prot_desc_map |-> Insert(core.prot_desc_map, prot_id, prot_desc),
          prot_cb_map   |-> Insert(core.prot_cb_map, prot_id, prot_cb)]

\* add_protocol: the maps it leaves
add_protocol(core, prot_id, prot_desc, prot_cb) ==
    [prot_desc_map |-> Insert(core.prot_desc_map, prot_id, prot_desc),
     prot_cb_map   |-> Insert(core.prot_cb_map, prot_id, prot_cb)]

\* what a call did: its return value, the buffers it gave to fn_send and the
\* callbacks it invoked
Outcome(ret, snd, cbs) == [ret |-> ret, sent |-> snd, dispatched |-> cbs]

\* `if self.do_gen_err { (self.fn_send)(&encode_error(self.lcsf_mode, loc, err as u8)); }`
gen_err(core, loc, code) ==
    IF core.do_gen_err THEN <<encode_error(core.lcsf_mode, loc, code)>> ELSE <<>>

\* receive_buff that dispatches the command before validating it
receive_buff_dispatch_first(core, buff) ==
    LET dec == decode_buff(core.lcsf_mode, buff)
        val == validate_msg(core.prot_desc_map, dec.val)
        cb  == IF dec.val.prot_id \in DOMAIN core.prot_cb_map
               THEN <<[cb |-> core.prot_cb_map[dec.val.prot_id],
                       valid_cmd |-> LcsfValidCmd(dec.val.cmd_id, <<>>)]>>
               ELSE <<>>
    IN  IF dec.tag = "Err"
        THEN Outcome(Returned(FALSE), gen_err(core, DecodeError, DecodeErrCode(dec.val)), <<>>)
        ELSE IF val.tag = "Err"
        THEN Outcome(Returned(FALSE),
                     gen_err(core, ValidationError, ValidateErrCode(val.val)), cb)
        ELSE Outcome(Returned(TRUE), <<>>,
                     <<[cb |-> core.prot_cb_map[val.val.prot_id], valid_cmd |-> val.val.cmd]>>)

\* receive_buff that reports every failure as a decoder error
receive_buff_one_location(core, buff) ==
    LET dec == decode_buff(core.lcsf_mode, buff)
        val == validate_msg(core.prot_desc_map, dec.val)
    IN  IF dec.tag = "Err"
        THEN Outcome(Returned(FALSE), gen_err(core, DecodeError, DecodeErrCode(dec.val)), <<>>)
        ELSE IF val.tag = "Err"
        THEN Outcome(Returned(FALSE),
                     gen_err(core, DecodeError, ValidateErrCode(val.val)), <<>>)
        ELSE IF val.val.prot_id \notin DOMAIN core.prot_cb_map
        THEN Outcome(Panicked, <<>>, <<>>)
        ELSE Outcome(Returned(TRUE), <<>>,
                     <<[cb |-> core.prot_cb_map[val.val.prot_id], valid_cmd |-> val.val.cmd]>>)

receive_buff(core, buff) ==
    LET dec == decode_buff(core.lcsf_mode, buff)
        val == validate_msg(core.prot_desc_map, dec.val)
    IN  IF dec.tag = "Err"
        THEN Outcome(Returned(FALSE), gen_err(core, DecodeError, DecodeErrCode(dec.val)), <<>>)
        ELSE IF val.tag = "Err"
        THEN Outcome(Returned(FALSE),
                     gen_err(core, ValidationError, ValidateErrCode(val.val)), <<>>)
        ELSE IF val.val.prot_id \notin DOMAIN core.prot_cb_map
        THEN Outcome(Panicked, <<>>, <<>>)
        ELSE Outcome(Returned(TRUE), <<>>,
                     <<[cb |-> core.prot_cb_map[val.val.prot_id], valid_cmd |-> val.val.cmd]>>)

\* send_cmd that drops a command it cannot encode
send_cmd_silent(core, prot_id, valid_cmd) ==
    IF prot_id \notin DOMAIN core.prot_desc_map THEN Outcome(Returned(Unit), <<>>, <<>>)
    ELSE LET cmds == Deref(core.prot_desc_map[prot_id]).cmd_desc_arr
             cidx == MapIndex(cmds, valid_cmd.cmd_id)
             raw  == encode_valid(prot_id, cmds[cidx][2], valid_cmd)
         IN  IF cidx = 0 THEN Outcome(Returned(Unit), <<>>, <<>>)
             ELSE IF raw.tag = "None" THEN Outcome(Returned(Unit), <<>>, <<>>)
             ELSE Outcome(Returned(Unit), <<encode_buff(core.lcsf_mode, raw.val)>>, <<>>)

send_cmd(core, prot_id, valid_cmd) ==
    IF prot_id \notin DOMAIN core.prot_desc_map THEN Outcome(Panicked, <<>>, <<>>)
    ELSE LET cmds == Deref(core.prot_desc_map[prot_id]).cmd_desc_arr
             cidx == MapIndex(cmds, valid_cmd.cmd_id)
             raw  == encode_valid(prot_id, cmds[cidx][2], valid_cmd)
         IN  IF cidx = 0 THEN Outcome(Panicked, <<>>, <<>>)
             ELSE IF raw.tag = "None" THEN Outcome(Panicked, <<>>, <<>>)
             ELSE Outcome(Returned(Unit), <<encode_buff(core.lcsf_mode, raw.val)>>, <<>>)

\* receive_raw that gives back only messages of registered protocols
receive_raw_registered_only(core, buff) ==
    LET dec == decode_buff(core.lcsf_mode, buff)
    IN  IF dec.tag = "Err"
        THEN Outcome(Returned(None), gen_err(core, DecodeError, DecodeErrCode(dec.val)), <<>>)
        ELSE IF dec.val.prot_id \notin DOMAIN core.prot_desc_map
        THEN Outcome(Returned(None), <<>>, <<>>)
        ELSE Outcome(Returned(Some(dec.val)), <<>>, <<>>)

receive_raw(core, buff) ==
    LET dec == decode_buff(core.lcsf_mode, buff)
    IN  IF dec.tag = "Err"
        THEN Outcome(Returned(None), gen_err(core, DecodeError, DecodeErrCode(dec.val)), <<>>)
        ELSE Outcome(Returned(Some(dec.val)), <<>>, <<>>)

send_raw(core, raw_msg) ==
    Outcome(Returned(Unit), <<encode_buff(core.lcsf_mode, raw_msg)>>, <<>>)

-----------------------------------------------------------------------------
(* Inputs of the transcoder.                                               *)

\* longest arbitrary byte buffer given to decode_buff
MaxBufLen == 7

\* most attributes at one level of a generated raw message
MaxAtt == 2

\* byte values of the arbitrary buffers: ids 0..2, counts and sizes 0..2,
\* and 0x81, an id byte with the sub-attribute flag (bit 7) set
ByteVals == {0, 1, 2, 129}

SeqsUpTo(S, n) == UNION {[1..k -> S] : k \in 0..n}

Prefixes(s) == {SubSeq(s, 1, k) : k \in 0..Len(s)}

ArbBufs == SeqsUpTo(ByteVals, MaxBufLen)

\* Normal mode buffers with a declared payload size of 0 (a leaf, a node)
ZERO_LEAF_NORMAL == <<171, 0, 18, 0, 1, 0, 85, 0, 0, 0>>

ZERO_NODE_NORMAL == <<171, 0, 18, 0, 2, 0, 85, 128, 0, 0, 64, 0, 1, 0, 9>>

\* the test vectors, every truncation of them and one extra trailing byte
SampleBufs ==
    UNION {Prefixes(b) \cup {b \o <<x>> : x \in ByteVals} :
           b \in {RX_MSG_SMALL, RX_MSG_NORMAL, ZERO_LEAF_NORMAL, ZERO_NODE_NORMAL}}

Buffers == ArbBufs \cup SampleBufs

\* a leaf attribute holding data d, a node attribute holding sub-attributes arr
Leaf(d) == LcsfRawAtt(FALSE, Len(d), Data(d))

Node(arr) == LcsfRawAtt(TRUE, Len(arr), SubattArr(arr))

\* attribute ids: two that fit 7 bits, one that needs 8, one that needs 16
AttIds == {1, 2, 128, 32769}

\* protocol ids: one that fits a byte, one that does not
ProtIds == {171, 427}

SubPairs ==
    { <<1, Leaf(<<7>>)>>,
      <<3, Node(<< <<2, Leaf(<<>>)>>, <<1, Leaf(<<7, 8>>)>> >>)>> }

\* attributes whose fields disagree with their payload (not produced by decode_buff)
OddAtts ==
    { LcsfRawAtt(FALSE, 2, Data(<<7>>)),
      LcsfRawAtt(TRUE, 1, Data(<<7>>)),
      LcsfRawAtt(TRUE, 2, SubattArr(<< <<1, Leaf(<<7>>)>> >>)),
      LcsfRawAtt(FALSE, 1, SubattArr(<< <<1, Leaf(<<7>>)>> >>)) }

TopPairs ==
    {<<i, Leaf(<<7>>)>> : i \in AttIds}
    \cup {<<1, Leaf(d)>> : d \in {<<>>, <<7, 8>>}}
    \cup {<<2, Node(arr)>> : arr \in SeqsUpTo(SubPairs, MaxAtt)}
    \cup {<<1, a>> : a \in OddAtts}

\* raw messages given to encode_buff; att_nb is the length of att_arr, or one more
RawMsgs ==
    { LcsfRawMsg(p, 18, Len(arr) + extra, arr) :
        p \in ProtIds, extra \in {0, 1}, arr \in SeqsUpTo(TopPairs, MaxAtt) }

-----------------------------------------------------------------------------
(* The transcoder called on its own.                                       *)

InitCodec == new("Small", FALSE)

\* each behaviour makes one call, from the state where none has been made
DecodeBuff ==
    /\ call = NoCall
    /\ \E m \in Modes, b \in Buffers :
        /\ call' = [fn |-> "decode_buff", mode |-> m, buffer |-> b]
        /\ result' = decode_buff(m, b)
        /\ UNCHANGED <<core_vars, sent, dispatched>>

EncodeBuff ==
    /\ call = NoCall
    /\ \E m \in Modes, msg \in RawMsgs :
        /\ call' = [fn |-> "encode_buff", mode |-> m, msg |-> msg]
        /\ result' = encode_buff(m, msg)
        /\ UNCHANGED <<core_vars, sent, dispatched>>

NextCodec == DecodeBuff \/ EncodeBuff

SpecCodec == InitCodec /\ [][NextCodec]_vars

-----------------------------------------------------------------------------
(* Vocabulary of the transcoder's properties.                              *)

RECURSIVE AllNonZero(_)
\* every attribute of arr, at every nesting level, has a non-zero payload_size
AllNonZero(arr) ==
    \A i \in 1..Len(arr) :
        /\ arr[i][2].payload_size # 0
        /\ AllNonZero(arr[i][2].payload.arr)

RECURSIVE Consistent(_)
\* at every node of arr: payload_size is the number of payload bytes (leaf) or
\* of children (node), and has_subatt says which of the two the payload is
Consistent(arr) ==
    \A i \in 1..Len(arr) :
        LET att == arr[i][2]
        IN  /\ att.has_subatt = (att.payload.kind = "SubattArr")
            /\ att.payload_size = (IF att.payload.kind = "Data"
                                   THEN Len(att.payload.data)
                                   ELSE Len(att.payload.arr))
            /\ Consistent(att.payload.arr)

RECURSIVE FieldsBelow(_, _, _)
\* every attribute id of arr is below idLim, every payload_size below sizeLim
FieldsBelow(arr, idLim, sizeLim) ==
    \A i \in 1..Len(arr) :
        /\ arr[i][1] \in 0..(idLim - 1)
        /\ arr[i][2].payload_size \in 0..(sizeLim - 1)
        /\ \A k \in 1..Len(arr[i][2].payload.data) : arr[i][2].payload.data[k] \in 0..U8Max
        /\ FieldsBelow(arr[i][2].payload.arr, idLim, sizeLim)

\* a message as LcsfRawMsg can hold it: u16 fields, u8 data
IsU16Msg(msg) ==
    /\ msg.prot_id \in 0..U16Max
    /\ msg.cmd_id \in 0..U16Max
    /\ msg.att_nb \in 0..U16Max
    /\ FieldsBelow(msg.att_arr, U16Max + 1, U16Max + 1)

\* a structurally valid message
StructValid(msg) ==
    /\ msg.att_nb = Len(msg.att_arr)
    /\ Consistent(msg.att_arr)

\* the fields of msg fit the field widths of the mode: ids, counts and sizes in
\* one byte (Small) or two (Normal), attribute ids in 7 or 15 bits
FitsMode(mode, msg) ==
    LET lim == IF mode = "Small" THEN U8Max + 1 ELSE U16Max + 1
    IN  /\ msg.prot_id \in 0..(lim - 1)
        /\ msg.cmd_id \in 0..(lim - 1)
        /\ msg.att_nb \in 0..(lim - 1)
        /\ FieldsBelow(msg.att_arr, lim \div 2, lim)

MsgHeaderSize(mode) == IF mode = "Small" THEN 3 ELSE 6

AttHeaderSize(mode) == IF mode = "Small" THEN 2 ELSE 4

RECURSIVE WireSize(_, _)
\* bytes that the attributes of arr declare on the wire: headers and leaf payloads
WireSize(mode, arr) ==
    IF arr = <<>> THEN 0
    ELSE AttHeaderSize(mode)
         + Len(arr[1][2].payload.data)
         + WireSize(mode, arr[1][2].payload.arr)
         + WireSize(mode, Tail(arr))

RECURSIVE DeclaredEnd(_, _, _, _)
\* Reading the declarations of buffer b alone: the index after the n attributes
\* declared from index pos on, or 0 when b ends before one of them is complete.
DeclaredEnd(mode, b, pos, n) ==
    IF n = 0 THEN pos
    ELSE IF pos + AttHeaderSize(mode) - 1 > Len(b) THEN 0
    ELSE LET flag == IF mode = "Small" THEN b[pos] >= 128 ELSE b[pos + 1] >= 128
             size == IF mode = "Small" THEN b[pos + 1] ELSE b[pos + 2] + 256 * b[pos + 3]
             body == pos + AttHeaderSize(mode)
             next == IF flag THEN DeclaredEnd(mode, b, body, size)
                     ELSE IF body + size - 1 > Len(b) THEN 0 ELSE body + size
         IN  IF next = 0 THEN 0 ELSE DeclaredEnd(mode, b, next, n - 1)

\* the buffer holds its header and exactly the attributes the header declares
ExactFrame(mode, b) ==
    /\ Len(b) >= MsgHeaderSize(mode)
    /\ DeclaredEnd(mode, b, MsgHeaderSize(mode) + 1,
                   IF mode = "Small" THEN b[3] ELSE b[5] + 256 * b[6]) = Len(b) + 1

Decoded == call.fn = "decode_buff" /\ result.tag = "Ok"

HasNestedAtt(msg) ==
    \E i \in 1..Len(msg.att_arr) :
        /\ msg.att_arr[i][2].payload.kind = "SubattArr"
        /\ msg.att_arr[i][2].payload.arr # <<>>

-----------------------------------------------------------------------------
(* C1: encode_buff(m, msg) = b whenever decode_buff(m, b) = Ok(msg).       *)
(* As stated it fails: a declared attribute of payload size 0 is decoded   *)
(* and then skipped by encode_att_rec.                                     *)
C1_EncodeDecode_AsStated ==
    Decoded => encode_buff(call.mode, result.val) = call.buffer

(* C1, amended: encode_buff(m, msg) = b whenever decode_buff(m, b) =       *)
(* Ok(msg) and every attribute of msg, at every level, has a non-zero      *)
(* payload_size.                                                           *)
C1_EncodeDecode ==
    (Decoded /\ AllNonZero(result.val.att_arr))
        => encode_buff(call.mode, result.val) = call.buffer

C1_Witness ==
    /\ Decoded
    /\ AllNonZero(result.val.att_arr)
    /\ result.val.att_nb >= 2
    /\ HasNestedAtt(result.val)

(* C2: decode_buff(m, encode_buff(m, msg)) = Ok(msg) for every raw message *)
(* whose attributes all have a non-zero payload_size.  As stated it fails: *)
(* encode_buff truncates fields to the mode's width and trusts att_nb,     *)
(* payload_size and has_subatt.                                            *)
C2_DecodeEncode_AsStated ==
    (call.fn = "encode_buff" /\ AllNonZero(call.msg.att_arr))
        => decode_buff(call.mode, result) = Ok(call.msg)

(* C2, amended: decode_buff(m, encode_buff(m, msg)) = Ok(msg) for every    *)
(* structurally valid raw message whose fields fit the mode's widths and   *)
(* whose attributes all have a non-zero payload_size.                      *)
C2_DecodeEncode ==
    (/\ call.fn = "encode_buff"
     /\ AllNonZero(call.msg.att_arr)
     /\ StructValid(call.msg)
     /\ FitsMode(call.mode, call.msg))
        => decode_buff(call.mode, result) = Ok(call.msg)

C2_Witness ==
    /\ call.fn = "encode_buff"
    /\ AllNonZero(call.msg.att_arr)
    /\ StructValid(call.msg)
    /\ FitsMode(call.mode, call.msg)
    /\ Len(call.msg.att_arr) >= 2
    /\ HasNestedAtt(call.msg)

(* C3: exact-length framing.  decode_buff returns Err(FormatErr) on a      *)
(* buffer shorter than the message header, on one that ends before a       *)
(* declared attribute header, child or leaf payload is complete, and on    *)
(* one with a byte left after the declared attributes; it returns Ok only  *)
(* when the declared structure takes exactly all bytes.  So every          *)
(* truncation and every one-byte extension of an accepted buffer fails.    *)
C3_ExactFraming ==
    call.fn = "decode_buff" =>
        /\ Len(call.buffer) < MsgHeaderSize(call.mode) => result = Err("FormatErr")
        /\ IF ExactFrame(call.mode, call.buffer)
           THEN result.tag = "Ok"
           ELSE result = Err("FormatErr")
        /\ result.tag = "Ok" =>
            /\ Len(call.buffer)
                 = MsgHeaderSize(call.mode) + WireSize(call.mode, result.val.att_arr)
            /\ \A k \in 0..(Len(call.buffer) - 1) :
                 decode_buff(call.mode, SubSeq(call.buffer, 1, k)) = Err("FormatErr")
            /\ \A x \in ByteVals :
                 decode_buff(call.mode, call.buffer \o <<x>>) = Err("FormatErr")

C3_Witness ==
    /\ Decoded
    /\ call.mode = "Normal"
    /\ HasNestedAtt(result.val)
    /\ Len(call.buffer) > MsgHeaderSize(call.mode) + AttHeaderSize(call.mode)

(* C4: decode_buff returns, for every buffer and mode, Err(FormatErr),     *)
(* Err(OverflowErr) or Ok(msg) with msg structurally valid: att_nb is the  *)
(* number of attributes, payload_size the number of payload bytes or of    *)
(* children at every node, has_subatt true exactly for a sub-attribute     *)
(* list; and every field is within u16 (no arithmetic overflow).           *)
C4_DecodeTotal ==
    call.fn = "decode_buff" =>
        \/ result \in {Err("FormatErr"), Err("OverflowErr")}
        \/ /\ result.tag = "Ok"
           /\ StructValid(result.val)
           /\ IsU16Msg(result.val)

C4_Witness ==
    /\ Decoded
    /\ \E i \in 1..Len(result.val.att_arr) :
         /\ result.val.att_arr[i][2].has_subatt
         /\ result.val.att_arr[i][2].payload_size = 0
    /\ \E i \in 1..Len(result.val.att_arr) :
         /\ ~result.val.att_arr[i][2].has_subatt
         /\ result.val.att_arr[i][2].payload_size > 0

-----------------------------------------------------------------------------
(* The validator called on its own.                                        *)

\* the protocol table given to validate_msg
ValidTable ==
    (171 :> "APP_PROT_DESC") @@ (172 :> "DUP_PROT_DESC") @@ (173 :> "TEST_PROT_DESC")
    @@ (174 :> "OPT_PROT_DESC") @@ (175 :> "MIX_PROT_DESC")
    @@ (LCSF_EP_PROT_ID_SMALL :> "LCSF_EP_PROT_DESC")

\* sub-attributes received in a node: a Uint16, a ByteArray, an id APP_PROT_DESC
\* does not know
RxSubPairs ==
    { <<1, Leaf(<<7, 8>>)>>, <<3, Leaf(<<7>>)>>, <<4, Leaf(<<7>>)>> }

RxTopPairs ==
    { <<1, Leaf(<<7>>)>>, <<1, Leaf(<<9>>)>>, <<1, Leaf(<<7, 8>>)>>,
      <<3, Leaf(<<7>>)>>, <<2, Leaf(<<7>>)>>, <<1, Node(<< <<1, Leaf(<<7, 8>>)>> >>)>> }
    \cup {<<2, Node(arr)>> : arr \in SeqsUpTo(RxSubPairs, MaxAtt)}

\* the number of attributes of command 1 of APP_PROT_DESC
AppAttNb == Len(APP_PROT_DESC.cmd_desc_arr[1][2].att_desc_arr)

\* raw messages for APP_PROT_DESC and DUP_PROT_DESC, as decode_buff builds them,
\* of up to AppAttNb attributes
RxGenerated ==
    { LcsfRawMsg(p, c, Len(arr), arr) :
        p \in {171, 172}, c \in {1, 2}, arr \in SeqsUpTo(RxTopPairs, AppAttNb) }

\* TEST_RAW_MSG with its attributes in another order, without its optional
\* attribute 0x40, and with no sub-attribute in its node 0x31
TEST_RAW_MSG_SWAPPED ==
    [TEST_RAW_MSG EXCEPT !.att_arr = <<@[3], @[1], @[2]>>]

TEST_RAW_MSG_NO_OPT ==
    [TEST_RAW_MSG EXCEPT !.att_nb = 2, !.att_arr = <<@[1], @[2]>>]

TEST_RAW_MSG_EMPTY_NODE ==
    [TEST_RAW_MSG EXCEPT !.att_arr[2][2].payload.arr[2][2] = Node(<<>>)]

\* raw messages that decode_buff does not build: a wrong att_nb, a payload_size
\* that is not the length of the data
RxOdd ==
    { LcsfRawMsg(171, 1, 5, << <<1, Leaf(<<7>>)>> >>),
      LcsfRawMsg(171, 1, 1, << <<1, LcsfRawAtt(FALSE, 1, Data(<<7, 8>>))>> >>) }

RxSamples ==
    { [m EXCEPT !.prot_id = p] :
        p \in {173, 85},
        m \in {TEST_RAW_MSG, TEST_RAW_MSG_SWAPPED, TEST_RAW_MSG_NO_OPT,
               TEST_RAW_MSG_EMPTY_NODE, [TEST_RAW_MSG EXCEPT !.cmd_id = 9]} }
    \cup { LcsfRawMsg(LCSF_EP_PROT_ID_SMALL, 0, 2,
                      << <<0, Leaf(<<l>>)>>, <<1, Leaf(<<t>>)>> >>) : l \in {0, 1}, t \in {0, 5} }

\* attributes received for OPT_PROT_DESC: well-formed, of a wrong size, with a
\* wrong flag, of an unknown id, nodes with and without their mandatory child,
\* with a child of a wrong size and with a child of an unknown id
RxOptPairs ==
    { <<1, Leaf(<<7>>)>>, <<2, Leaf(<<7, 8>>)>>, <<2, Leaf(<<7>>)>>, <<9, Leaf(<<7>>)>>,
      <<3, Leaf(<<7>>)>>, <<1, Node(<< <<1, Leaf(<<7>>)>> >>)>>,
      <<3, Node(<< <<1, Leaf(<<7>>)>> >>)>>, <<3, Node(<< <<2, Leaf(<<7>>)>> >>)>>,
      <<3, Node(<< <<1, Leaf(<<7, 8>>)>> >>)>>,
      <<3, Node(<< <<1, Leaf(<<7>>)>>, <<9, Leaf(<<7>>)>> >>)>>,
      <<3, Node(<< <<1, Leaf(<<7>>)>>, <<2, Leaf(<<7>>)>>, <<9, Leaf(<<7>>)>> >>)>> }

\* raw messages for OPT_PROT_DESC, of up to one attribute more than MaxAtt
RxOptGenerated ==
    { LcsfRawMsg(174, 1, Len(arr), arr) : arr \in SeqsUpTo(RxOptPairs, MaxAtt + 1) }

\* raw messages for MIX_PROT_DESC
RxMix ==
    { LcsfRawMsg(175, 1, Len(arr), arr) :
        arr \in SeqsUpTo({ <<1, Leaf(<<7>>)>>, <<1, Node(<< <<1, Leaf(<<7>>)>> >>)>> }, 2) }

RxMsgs == RxGenerated \cup RxOptGenerated \cup RxMix \cup RxSamples \cup RxOdd

InitValid == new("Small", FALSE)

ValidateMsg ==
    /\ call = NoCall
    /\ \E rx_msg \in RxMsgs :
        /\ call' = [fn |-> "validate_msg", prot_desc_map |-> ValidTable, rx_msg |-> rx_msg]
        /\ result' = validate_msg(ValidTable, rx_msg)
        /\ UNCHANGED <<core_vars, sent, dispatched>>

NextValid == ValidateMsg

SpecValid == InitValid /\ [][NextValid]_vars

-----------------------------------------------------------------------------
(* Vocabulary of the validator's properties.                               *)

Ids(arr) == [i \in 1..Len(arr) |-> arr[i][1]]

\* the command descriptor that the protocol table holds for a raw message
CmdDescOf(desc_map, rx_msg) ==
    LET cmds == Deref(desc_map[rx_msg.prot_id]).cmd_desc_arr
    IN  cmds[MapIndex(cmds, rx_msg.cmd_id)][2]

RECURSIVE StripAbsent(_)
\* the attributes of arr without the placeholders of absent attributes, at every level
StripAbsent(arr) ==
    IF arr = <<>> THEN <<>>
    ELSE IF arr[1][2] = EmptyRawAtt THEN StripAbsent(Tail(arr))
    ELSE << <<arr[1][1],
              [arr[1][2] EXCEPT !.payload.arr = StripAbsent(@)]>> >>
         \o StripAbsent(Tail(arr))

RECURSIVE InDescOrder(_, _)
\* at every level the received ids are pairwise distinct and come in the order
\* in which the descriptor lists them
InDescOrder(arr, desc_arr) ==
    LET Received(id) == \E i \in 1..Len(arr) : arr[i][1] = id
    IN  /\ \A i, j \in 1..Len(arr) : arr[i][1] = arr[j][1] => i = j
        /\ Ids(arr) = SelectSeq(Ids(desc_arr), Received)
        /\ \A i \in 1..Len(arr) :
             InDescOrder(arr[i][2].payload.arr,
                         desc_arr[MapIndex(desc_arr, arr[i][1])][2].subatt_desc_arr)

Validated == call.fn = "validate_msg" /\ result.tag = "Ok"

\* encode_valid applied to what validate_msg returned
Reencoded ==
    encode_valid(result.val.prot_id, CmdDescOf(call.prot_desc_map, call.rx_msg),
                 result.val.cmd)

-----------------------------------------------------------------------------
(* C5: when validate_msg(T, r) = Ok((v, p)), encode_valid(p, descriptor of *)
(* r.cmd_id, v) returns Some(r') with r' identical to r except for the     *)
(* placeholders of absent optional attributes.  As stated it fails: r' is  *)
(* in descriptor order whatever the order of r, and att_nb and             *)
(* payload_size are recomputed.                                            *)
C5_ValidateEncode_AsStated ==
    Validated =>
        /\ Reencoded.tag = "Some"
        /\ [Reencoded.val EXCEPT !.att_arr = StripAbsent(@)] = call.rx_msg

(* C5, amended: the same for every accepted raw message r that is          *)
(* structurally valid and whose attributes, at every level, have pairwise  *)
(* distinct ids and come in the order of the descriptor.                   *)
C5_ValidateEncode ==
    (/\ Validated
     /\ StructValid(call.rx_msg)
     /\ InDescOrder(call.rx_msg.att_arr,
                    CmdDescOf(call.prot_desc_map, call.rx_msg).att_desc_arr))
        => /\ Reencoded.tag = "Some"
           /\ [Reencoded.val EXCEPT !.att_arr = StripAbsent(@)] = call.rx_msg

C5_Witness ==
    /\ Validated
    /\ StructValid(call.rx_msg)
    /\ InDescOrder(call.rx_msg.att_arr,
                   CmdDescOf(call.prot_desc_map, call.rx_msg).att_desc_arr)
    /\ Len(call.rx_msg.att_arr) >= 2
    /\ HasNestedAtt(call.rx_msg)
    /\ Reencoded.tag = "Some"
    /\ StripAbsent(Reencoded.val.att_arr) # Reencoded.val.att_arr

-----------------------------------------------------------------------------
(* The dispatch core in use: an application creates a core, then calls its *)
(* methods one after another.  `call` holds the call in progress with its  *)
(* arguments, `result`, `sent` and `dispatched` what it did; Return gives  *)
(* control back to the application, which forgets them.  A callback is     *)
(* taken to return without calling back into the core.                     *)

\* protocol ids the application uses: its own, and the two error protocol ids
CoreProtIds == {171, LCSF_EP_PROT_ID_SMALL, LCSF_EP_PROT_ID_NORMAL}

CoreDescs == {"APP_PROT_DESC", "CORE_TEST_PROT_DESC"}

Callbacks == {"cb_a", "cb_b"}

\* command bodies received: CORE_TEST_PROT_DESC's command; APP_PROT_DESC's
\* command 1 well-formed (twice), without its mandatory attribute, with a
\* wrong size, with an unknown attribute, with too many attributes; an unknown
\* command; error reports
CoreBodies ==
    { <<18, <<>> >>,
      <<1, << <<1, Leaf(<<7>>)>> >> >>,
      <<1, << <<1, Leaf(<<7>>)>>, <<2, Node(<< <<1, Leaf(<<7, 8>>)>> >>)>> >> >>,
      <<1, <<>> >>,
      <<1, << <<1, Leaf(<<7, 8>>)>> >> >>,
      <<1, << <<3, Leaf(<<7>>)>> >> >>,
      <<1, << <<1, Leaf(<<7>>)>>, <<1, Leaf(<<7>>)>>, <<1, Leaf(<<7>>)>> >> >>,
      <<9, <<>> >>,
      <<0, << <<0, Leaf(<<DecodeError>>)>>, <<1, Leaf(<<1>>)>> >> >>,
      <<0, << <<0, Leaf(<<ValidationError>>)>>, <<1, Leaf(<<5>>)>> >> >> }

CoreRawMsgs ==
    { LcsfRawMsg(p, body[1], Len(body[2]), body[2]) :
        p \in CoreProtIds \cup {85}, body \in CoreBodies }

\* TEST_BUFF of lcsf_core.rs and buffers no mode decodes
TEST_BUFF == <<171, 18, 0>>

BadBufs == { <<>>, <<171>>, <<171, 18, 5>>, <<171, 18, 0, 0, 0, 0, 0>> }

CoreBufs ==
    {encode_buff(m, r) : m \in Modes, r \in CoreRawMsgs} \cup {TEST_BUFF} \cup BadBufs

\* commands sent: the commands of the three descriptors well-formed, with an
\* absent optional attribute, with an absent mandatory one, with too few
\* attributes, with a wrong size; an unknown command
CoreValidCmds ==
    { LcsfValidCmd(18, <<>>),
      LcsfValidCmd(18, <<LcsfValidAtt(ValidData(<<7>>))>>),
      LcsfValidCmd(1, <<LcsfValidAtt(ValidData(<<7>>)), LcsfValidAtt(ValidSubattArr(<<>>))>>),
      LcsfValidCmd(1, <<LcsfValidAtt(ValidData(<<7>>)),
                        LcsfValidAtt(ValidSubattArr(
                            <<LcsfValidAtt(ValidData(<<7, 8>>)),
                              LcsfValidAtt(ValidData(<<>>))>>))>>),
      LcsfValidCmd(1, <<LcsfValidAtt(ValidData(<<>>)), LcsfValidAtt(ValidSubattArr(<<>>))>>),
      LcsfValidCmd(1, <<LcsfValidAtt(ValidData(<<7>>))>>),
      LcsfValidCmd(1, <<LcsfValidAtt(ValidData(<<7, 8>>)), LcsfValidAtt(ValidSubattArr(<<>>))>>),
      LcsfValidCmd(9, <<>>),
      LcsfValidCmd(0, <<LcsfValidAtt(ValidData(<<ValidationError>>)),
                        LcsfValidAtt(ValidData(<<4>>))>>) }

Init == \E mode \in Modes, gen \in BOOLEAN : new(mode, gen)


\* a &self method that stops the generation of error packets once it has sent one
Record_error_once(c, out) ==
    /\ call' = c
    /\ result' = out.ret
    /\ sent' = out.sent
    /\ dispatched' = out.dispatched
    /\ do_gen_err' = (do_gen_err /\ out.sent = <<>>)
    /\ UNCHANGED <<lcsf_mode, prot_desc_map, prot_cb_map>>

\* what a &self method did, recorded
Record(c, out) ==
    /\ call' = c
    /\ result' = out.ret
    /\ sent' = out.sent
    /\ dispatched' = out.dispatched
    /\ UNCHANGED core_vars

\* what a &mut self method did, recorded
Mutate(c, maps) ==
    /\ call' = c
    /\ result' = Returned(Unit)
    /\ sent' = <<>>
    /\ dispatched' = <<>>
    /\ prot_desc_map' = maps.prot_desc_map
    /\ prot_cb_map' = maps.prot_cb_map
    /\ UNCHANGED <<lcsf_mode, do_gen_err>>

UpdateErrCb ==
    /\ call = NoCall
    /\ \E new_err_cb \in Callbacks :
        Mutate([fn |-> "update_err_cb", new_err_cb |-> new_err_cb],
               update_err_cb(self, new_err_cb))

AddProtocol ==
    /\ call = NoCall
    /\ \E prot_id \in CoreProtIds, prot_desc \in CoreDescs, prot_cb \in Callbacks :
        Mutate([fn |-> "add_protocol", prot_id |-> prot_id, prot_desc |-> prot_desc,
                prot_cb |-> prot_cb],
               add_protocol(self, prot_id, prot_desc, prot_cb))

ReceiveBuff ==
    /\ call = NoCall
    /\ \E buff \in CoreBufs :
        Record([fn |-> "receive_buff", buff |-> buff], receive_buff(self, buff))

SendCmd ==
    /\ call = NoCall
    /\ \E prot_id \in CoreProtIds, valid_cmd \in CoreValidCmds :
        Record([fn |-> "send_cmd", prot_id |-> prot_id, valid_cmd |-> valid_cmd],
               send_cmd(self, prot_id, valid_cmd))

ReceiveRaw ==
    /\ call = NoCall
    /\ \E buff \in CoreBufs :
        Record([fn |-> "receive_raw", buff |-> buff], receive_raw(self, buff))

SendRaw ==
    /\ call = NoCall
    /\ \E raw_msg \in CoreRawMsgs :
        Record([fn |-> "send_raw", raw_msg |-> raw_msg], send_raw(self, raw_msg))

\* the call is over (a panic ends the program: nothing follows it)
Return ==
    /\ call # NoCall
    /\ result.tag = "Returned"
    /\ call' = NoCall
    /\ result' = Unit
    /\ sent' = <<>>
    /\ dispatched' = <<>>
    /\ UNCHANGED core_vars

Next ==
    \/ UpdateErrCb
    \/ AddProtocol
    \/ ReceiveBuff
    \/ SendCmd
    \/ ReceiveRaw
    \/ SendRaw
    \/ Return

Spec == Init /\ [][Next]_vars

-----------------------------------------------------------------------------
(* Properties of the dispatch core.                                        *)

\* the two stages of the receive path, applied to the buffer of the call
Stage1 == decode_buff(lcsf_mode, call.buff)

Stage2 == validate_msg(prot_desc_map, Stage1.val)

BothStagesOk == Stage1.tag = "Ok" /\ Stage2.tag = "Ok"

\* the callbacks registered, as a set
RegisteredCbs == {prot_cb_map[k] : k \in DOMAIN prot_cb_map}

\* C6: receive_buff returns true exactly when decode_buff and then validate_msg
\* succeed on the buffer; it then has invoked one callback, the one registered
\* for the protocol id of the message, once, with the validated command, and
\* no other; when a stage fails it returns false and has invoked no callback.
C6_ReceiveBuffDispatch ==
    call.fn = "receive_buff" =>
        /\ result.tag = "Returned"
        /\ result.val = BothStagesOk
        /\ IF BothStagesOk
           THEN /\ Stage1.val.prot_id \in DOMAIN prot_cb_map
                /\ dispatched = <<[cb |-> prot_cb_map[Stage1.val.prot_id],
                                   valid_cmd |-> Stage2.val.cmd]>>
           ELSE dispatched = <<>>

\* a message was dispatched to cb_b while cb_a is registered too
C6_Witness ==
    /\ call.fn = "receive_buff"
    /\ result = Returned(TRUE)
    /\ Len(dispatched) = 1
    /\ dispatched[1].cb = "cb_b"
    /\ dispatched[1].valid_cmd.att_arr # <<>>
    /\ "cb_a" \in RegisteredCbs

\* C7: a receive_buff that returns false has given fn_send one buffer when
\* do_gen_err is set, encode_error(mode, DecodeError, code) if decode_buff
\* failed and encode_error(mode, ValidationError, code) if validate_msg failed,
\* code being the error as u8; it has given fn_send nothing when do_gen_err is
\* not set.
C7_ErrorReport ==
    (call.fn = "receive_buff" /\ result.tag = "Returned" /\ result.val = FALSE) =>
        sent = IF ~do_gen_err THEN <<>>
               ELSE IF Stage1.tag = "Err"
               THEN <<encode_error(lcsf_mode, DecodeError, DecodeErrCode(Stage1.val))>>
               ELSE <<encode_error(lcsf_mode, ValidationError, ValidateErrCode(Stage2.val))>>

\* a message that decodes and lacks a mandatory attribute was reported
C7_Witness ==
    /\ call.fn = "receive_buff"
    /\ do_gen_err
    /\ result = Returned(FALSE)
    /\ Stage1.tag = "Ok"
    /\ Stage2 = Err("MissMandatoryAtt")
    /\ Len(sent) = 1

\* the command descriptors of the protocol send_cmd is called with, and the
\* raw message encode_valid makes of the command
SendCmdDescs == Deref(prot_desc_map[call.prot_id]).cmd_desc_arr

SendCmdKnown == \E i \in 1..Len(SendCmdDescs) : SendCmdDescs[i][1] = call.valid_cmd.cmd_id

SendCmdRaw ==
    encode_valid(call.prot_id,
                 SendCmdDescs[MapIndex(SendCmdDescs, call.valid_cmd.cmd_id)][2],
                 call.valid_cmd)

SendCmdEncodable ==
    /\ call.prot_id \in DOMAIN prot_desc_map
    /\ SendCmdKnown
    /\ SendCmdRaw.tag = "Some"

\* C8: send_cmd(p, v), p registered, v.cmd_id in p's descriptor and
\* encode_valid succeeding, gives fn_send one buffer,
\* encode_buff(mode, encode_valid(p, cmd_desc, v)); otherwise it panics and
\* gives fn_send nothing.
C8_SendCmd ==
    call.fn = "send_cmd" =>
        IF SendCmdEncodable
        THEN /\ result.tag = "Returned"
             /\ sent = <<encode_buff(lcsf_mode, SendCmdRaw.val)>>
        ELSE /\ result.tag = "Panic"
             /\ sent = <<>>

\* a command with an absent optional attribute was sent for protocol 171
C8_Witness ==
    /\ call.fn = "send_cmd"
    /\ call.prot_id = 171
    /\ call.valid_cmd.cmd_id = 1
    /\ result.tag = "Returned"
    /\ Len(sent) = 1
    /\ Len(sent[1]) > 3

\* C9: in every reachable state prot_desc_map and prot_cb_map have the same
\* keys, the error protocol id of the core's mode among them, and the callback
\* lookup of receive_buff does not miss (receive_buff does not panic).
C9_MapsAgree ==
    /\ DOMAIN prot_desc_map = DOMAIN prot_cb_map
    /\ err_prot_id(lcsf_mode) \in DOMAIN prot_desc_map
    /\ call.fn = "receive_buff" => result.tag # "Panic"

\* receive_buff dispatched a message of a protocol added by add_protocol, in a
\* core where the error callback was replaced
C9_Witness ==
    /\ call.fn = "receive_buff"
    /\ result = Returned(TRUE)
    /\ Cardinality(DOMAIN prot_cb_map) = 3
    /\ prot_cb_map[err_prot_id(lcsf_mode)] # "def_process_error"
    /\ Stage1.val.prot_id # err_prot_id(lcsf_mode)

\* C10: add_protocol(id, d, cb) leaves id mapped to d and to cb, whatever id was
\* mapped to before, and every other id as it was; update_err_cb(cb) leaves
\* the error protocol id of the core's mode mapped to cb, its descriptor and
\* every other id as they were.
C10_Registration ==
    [][ /\ (call = NoCall /\ call'.fn = "add_protocol") =>
            /\ DOMAIN prot_desc_map' = DOMAIN prot_desc_map \cup {call'.prot_id}
            /\ DOMAIN prot_cb_map' = DOMAIN prot_cb_map \cup {call'.prot_id}
            /\ prot_desc_map'[call'.prot_id] = call'.prot_desc
            /\ prot_cb_map'[call'.prot_id] = call'.prot_cb
            /\ \A k \in DOMAIN prot_desc_map \ {call'.prot_id} :
                    prot_desc_map'[k] = prot_desc_map[k]
            /\ \A k \in DOMAIN prot_cb_map \ {call'.prot_id} :
                    prot_cb_map'[k] = prot_cb_map[k]
        /\ (call = NoCall /\ call'.fn = "update_err_cb") =>
            /\ prot_desc_map' = prot_desc_map
            /\ DOMAIN prot_cb_map' = DOMAIN prot_cb_map
            /\ prot_cb_map'[err_prot_id(lcsf_mode)] = call'.new_err_cb
            /\ \A k \in DOMAIN prot_cb_map \ {err_prot_id(lcsf_mode)} :
                    prot_cb_map'[k] = prot_cb_map[k]
      ]_vars

\* add_protocol replaced the registration of the error protocol id while
\* another protocol is registered
C10_Witness ==
    /\ call.fn = "add_protocol"
    /\ call.prot_id = err_prot_id(lcsf_mode)
    /\ prot_desc_map[call.prot_id] = "CORE_TEST_PROT_DESC"
    /\ prot_cb_map[call.prot_id] = "cb_b"
    /\ 171 \in DOMAIN prot_desc_map
    /\ prot_desc_map[171] = "APP_PROT_DESC"

-----------------------------------------------------------------------------
(* Vocabulary of the validator's error cases.  A level is an array of      *)
(* descriptors with the array of raw attributes validated against it: the  *)
(* command's, or those of a node that is present.                          *)

\* validate_msg was called with a registered protocol id and a known command id
KnownCmd ==
    /\ call.fn = "validate_msg"
    /\ call.rx_msg.prot_id \in DOMAIN call.prot_desc_map
    /\ LET cmds == Deref(call.prot_desc_map[call.rx_msg.prot_id]).cmd_desc_arr
       IN  \E i \in 1..Len(cmds) : cmds[i][1] = call.rx_msg.cmd_id

\* the top level of the call
TopDescs == CmdDescOf(call.prot_desc_map, call.rx_msg).att_desc_arr

TopAtts == call.rx_msg.att_arr

\* the raw attribute looked up for the i-th descriptor of a level
Absent(desc_arr, rx_arr, i) == \A k \in 1..Len(rx_arr) : rx_arr[k][1] # desc_arr[i][1]

RxOf(desc_arr, rx_arr, i) == rx_arr[MapIndex(rx_arr, desc_arr[i][1])][2]

\* the i-th descriptor is a node and its raw attribute is a node that is present
PresentNode(desc_arr, rx_arr, i) ==
    /\ desc_arr[i][2].data_type = "Subattributes"
    /\ ~Absent(desc_arr, rx_arr, i)
    /\ RxOf(desc_arr, rx_arr, i).has_subatt
    /\ RxOf(desc_arr, rx_arr, i).payload.kind = "SubattArr"

SubDescs(desc_arr, i) == desc_arr[i][2].subatt_desc_arr

SubAtts(desc_arr, rx_arr, i) == RxOf(desc_arr, rx_arr, i).payload.arr

\* the attribute of the i-th descriptor validates
Validates(desc_arr, rx_arr, i) ==
    validate_att_rec(desc_arr[i][1], desc_arr[i][2], rx_arr).tag = "Ok"

PrecedingValidate(desc_arr, rx_arr, i) ==
    \A j \in 1..(i - 1) : Validates(desc_arr, rx_arr, j)

RECURSIVE WithinCounts(_, _)
\* no level has more raw attributes than descriptors
WithinCounts(desc_arr, rx_arr) ==
    /\ Len(rx_arr) <= Len(desc_arr)
    /\ \A i \in 1..Len(desc_arr) :
         PresentNode(desc_arr, rx_arr, i) =>
            WithinCounts(SubDescs(desc_arr, i), SubAtts(desc_arr, rx_arr, i))

\* a mandatory attribute of this level is absent and those before it validate
MissHere(desc_arr, rx_arr) ==
    \E i \in 1..Len(desc_arr) :
        /\ ~desc_arr[i][2].is_optional
        /\ Absent(desc_arr, rx_arr, i)
        /\ PrecedingValidate(desc_arr, rx_arr, i)

RECURSIVE MissAtSomeLevel(_, _)
\* MissHere at this level or at the level of some present node
MissAtSomeLevel(desc_arr, rx_arr) ==
    \/ MissHere(desc_arr, rx_arr)
    \/ \E i \in 1..Len(desc_arr) :
         /\ PresentNode(desc_arr, rx_arr, i)
         /\ MissAtSomeLevel(SubDescs(desc_arr, i), SubAtts(desc_arr, rx_arr, i))

RECURSIVE MissReached(_, _)
\* MissHere at this level, or at the level of a present node that validation
\* enters: the attributes before the node validate, at every enclosing level
MissReached(desc_arr, rx_arr) ==
    \/ MissHere(desc_arr, rx_arr)
    \/ \E i \in 1..Len(desc_arr) :
         /\ PresentNode(desc_arr, rx_arr, i)
         /\ PrecedingValidate(desc_arr, rx_arr, i)
         /\ MissReached(SubDescs(desc_arr, i), SubAtts(desc_arr, rx_arr, i))

\* the placeholder of an absent attribute
EmptyValidAtt == LcsfValidAtt(ValidData(<<>>))

RECURSIVE PlaceholdersInPlace(_, _, _)
\* every absent attribute of a level has a placeholder at its position in the
\* validated array, in present nodes too
PlaceholdersInPlace(desc_arr, rx_arr, valid_arr) ==
    \A i \in 1..Len(desc_arr) :
        /\ Absent(desc_arr, rx_arr, i) =>
              (i <= Len(valid_arr) /\ valid_arr[i] = EmptyValidAtt)
        /\ PresentNode(desc_arr, rx_arr, i) =>
              /\ i <= Len(valid_arr)
              /\ PlaceholdersInPlace(SubDescs(desc_arr, i), SubAtts(desc_arr, rx_arr, i),
                                     valid_arr[i].payload.arr)

-----------------------------------------------------------------------------
(* C11: for a raw message with a registered protocol id, a known command   *)
(* id and no more attributes than descriptors at each level, validate_msg  *)
(* returns MissMandatoryAtt when a mandatory attribute, of the top level   *)
(* or of a present node, is absent and the descriptor attributes before it *)
(* at that level validate; an absent optional attribute leaves a           *)
(* placeholder at its position.  As stated it fails: an attribute that     *)
(* fails before the node, at an enclosing level, gives its own error.      *)
C11_MissMandatory_AsStated ==
    (KnownCmd /\ WithinCounts(TopDescs, TopAtts)) =>
        /\ MissAtSomeLevel(TopDescs, TopAtts) => result = Err("MissMandatoryAtt")
        /\ result.tag = "Ok" =>
              PlaceholdersInPlace(TopDescs, TopAtts, result.val.cmd.att_arr)

(* C11, amended: the same when, at every level that encloses the absent    *)
(* attribute, the descriptor attributes before the enclosing node validate.*)
C11_MissMandatory ==
    (KnownCmd /\ WithinCounts(TopDescs, TopAtts)) =>
        /\ MissReached(TopDescs, TopAtts) => result = Err("MissMandatoryAtt")
        /\ result.tag = "Ok" =>
              PlaceholdersInPlace(TopDescs, TopAtts, result.val.cmd.att_arr)

\* the mandatory child of a present node of OPT_PROT_DESC is absent, nothing
\* is absent at the top level, and MissMandatoryAtt is returned
C11_Witness ==
    /\ KnownCmd
    /\ call.rx_msg.prot_id = 174
    /\ WithinCounts(TopDescs, TopAtts)
    /\ ~MissHere(TopDescs, TopAtts)
    /\ MissReached(TopDescs, TopAtts)
    /\ Len(TopAtts) = 3
    /\ result = Err("MissMandatoryAtt")

-----------------------------------------------------------------------------
(* Unknown attribute ids.                                                  *)

\* the raw attribute has the flag of the descriptor's type and, for a scalar
\* type, a size the type allows
TypedOk(att_desc, rx_att) ==
    IF att_desc.data_type = "Subattributes" THEN rx_att.has_subatt
    ELSE ~rx_att.has_subatt /\ validate_data_type(rx_att.payload_size, att_desc.data_type)

RECURSIVE MandatoryOk(_, _)
\* every mandatory attribute is present and correctly typed, in present nodes too
MandatoryOk(desc_arr, rx_arr) ==
    \A i \in 1..Len(desc_arr) :
        /\ ~desc_arr[i][2].is_optional =>
              /\ ~Absent(desc_arr, rx_arr, i)
              /\ TypedOk(desc_arr[i][2], RxOf(desc_arr, rx_arr, i))
        /\ PresentNode(desc_arr, rx_arr, i) =>
              MandatoryOk(SubDescs(desc_arr, i), SubAtts(desc_arr, rx_arr, i))

RECURSIVE PresentTypedOk(_, _)
\* every attribute that is present, mandatory or optional, is correctly typed,
\* in present nodes too
PresentTypedOk(desc_arr, rx_arr) ==
    \A i \in 1..Len(desc_arr) :
        /\ ~Absent(desc_arr, rx_arr, i) =>
              TypedOk(desc_arr[i][2], RxOf(desc_arr, rx_arr, i))
        /\ PresentNode(desc_arr, rx_arr, i) =>
              PresentTypedOk(SubDescs(desc_arr, i), SubAtts(desc_arr, rx_arr, i))

RECURSIVE DistinctDescIds(_)
\* the descriptor lists no attribute id twice at one level
DistinctDescIds(desc_arr) ==
    /\ \A i, j \in 1..Len(desc_arr) : desc_arr[i][1] = desc_arr[j][1] => i = j
    /\ \A i \in 1..Len(desc_arr) : DistinctDescIds(desc_arr[i][2].subatt_desc_arr)

\* a raw attribute of this level has an id that no descriptor of the level has
UnknownHere(desc_arr, rx_arr) ==
    \E k \in 1..Len(rx_arr) : \A i \in 1..Len(desc_arr) : desc_arr[i][1] # rx_arr[k][1]

RECURSIVE UnknownAtSomeLevel(_, _)
UnknownAtSomeLevel(desc_arr, rx_arr) ==
    \/ UnknownHere(desc_arr, rx_arr)
    \/ \E i \in 1..Len(desc_arr) :
         /\ PresentNode(desc_arr, rx_arr, i)
         /\ UnknownAtSomeLevel(SubDescs(desc_arr, i), SubAtts(desc_arr, rx_arr, i))

-----------------------------------------------------------------------------
(* C12: a raw message with a registered protocol id, a known command id,   *)
(* no more attributes than descriptors at each level and its mandatory     *)
(* attributes present and correctly typed, that holds at some level an     *)
(* attribute whose id the descriptor of that level does not list, is       *)
(* rejected with UnknownAttId.  As stated it fails: an optional attribute  *)
(* of a wrong type is reported first, and a descriptor that lists an id    *)
(* twice counts one raw attribute twice.                                   *)
C12_UnknownAtt_AsStated ==
    (/\ KnownCmd
     /\ WithinCounts(TopDescs, TopAtts)
     /\ MandatoryOk(TopDescs, TopAtts)
     /\ UnknownAtSomeLevel(TopDescs, TopAtts))
        => result = Err("UnknownAttId")

(* C12, amended: the same when every present attribute that the descriptor *)
(* lists, optional ones too, is correctly typed and the descriptor lists   *)
(* no id twice at one level.                                               *)
C12_UnknownAtt ==
    (/\ KnownCmd
     /\ WithinCounts(TopDescs, TopAtts)
     /\ MandatoryOk(TopDescs, TopAtts)
     /\ PresentTypedOk(TopDescs, TopAtts)
     /\ DistinctDescIds(TopDescs)
     /\ UnknownAtSomeLevel(TopDescs, TopAtts))
        => result = Err("UnknownAttId")

\* an unknown id inside a present node of OPT_PROT_DESC, none at the top level
C12_Witness ==
    /\ KnownCmd
    /\ call.rx_msg.prot_id = 174
    /\ WithinCounts(TopDescs, TopAtts)
    /\ MandatoryOk(TopDescs, TopAtts)
    /\ PresentTypedOk(TopDescs, TopAtts)
    /\ ~UnknownHere(TopDescs, TopAtts)
    /\ UnknownAtSomeLevel(TopDescs, TopAtts)
    /\ result = Err("UnknownAttId")

-----------------------------------------------------------------------------
(* Too many attributes.                                                    *)

RECURSIVE TooManyAtSomeLevel(_, _)
\* this level, or the level of some present node, has more raw attributes than
\* descriptors
TooManyAtSomeLevel(desc_arr, rx_arr) ==
    \/ Len(rx_arr) > Len(desc_arr)
    \/ \E i \in 1..Len(desc_arr) :
         /\ PresentNode(desc_arr, rx_arr, i)
         /\ TooManyAtSomeLevel(SubDescs(desc_arr, i), SubAtts(desc_arr, rx_arr, i))

RECURSIVE TooManyReached(_, _)
\* the same, for the levels that validation enters
TooManyReached(desc_arr, rx_arr) ==
    \/ Len(rx_arr) > Len(desc_arr)
    \/ \E i \in 1..Len(desc_arr) :
         /\ PresentNode(desc_arr, rx_arr, i)
         /\ PrecedingValidate(desc_arr, rx_arr, i)
         /\ TooManyReached(SubDescs(desc_arr, i), SubAtts(desc_arr, rx_arr, i))

-----------------------------------------------------------------------------
(* C13: validate_msg returns TooManyAtt when the top level has more raw    *)
(* attributes than the command has descriptors, and when a present node    *)
(* has more raw children than its descriptor has child descriptors,        *)
(* whatever else is wrong at that level.  As stated it fails: an attribute *)
(* that fails before the node, at an enclosing level, gives its own error. *)
C13_TooManyAtt_AsStated ==
    (KnownCmd /\ TooManyAtSomeLevel(TopDescs, TopAtts)) => result = Err("TooManyAtt")

(* C13, amended: the same for the top level, and for a present node when,  *)
(* at every enclosing level, the descriptor attributes before the          *)
(* enclosing node validate.                                                *)
C13_TooManyAtt ==
    (KnownCmd /\ TooManyReached(TopDescs, TopAtts)) => result = Err("TooManyAtt")

\* a present node of OPT_PROT_DESC has three children for two descriptors, its
\* mandatory child is absent and a child has an unknown id
C13_Witness ==
    /\ KnownCmd
    /\ call.rx_msg.prot_id = 174
    /\ Len(TopAtts) <= Len(TopDescs)
    /\ TooManyReached(TopDescs, TopAtts)
    /\ \E i \in 1..Len(TopDescs) :
         /\ PresentNode(TopDescs, TopAtts, i)
         /\ Len(SubAtts(TopDescs, TopAtts, i)) > Len(SubDescs(TopDescs, i))
         /\ UnknownHere(SubDescs(TopDescs, i), SubAtts(TopDescs, TopAtts, i))
    /\ result = Err("TooManyAtt")

-----------------------------------------------------------------------------
(* C14: validate_msg returns UnknownProtId whenever the protocol id of the *)
(* raw message is not a key of the table, UnknownCmdId whenever it is and  *)
(* the command id is not a command of its descriptor, whatever the         *)
(* attributes; on success it returns the protocol id of the raw message    *)
(* and a command with its command id.                                      *)
C14_UnknownIds ==
    call.fn = "validate_msg" =>
        LET registered == call.rx_msg.prot_id \in DOMAIN call.prot_desc_map
        IN  /\ ~registered => result = Err("UnknownProtId")
            /\ (registered /\ ~KnownCmd) => result = Err("UnknownCmdId")
            /\ result.tag = "Ok" =>
                  /\ result.val.prot_id = call.rx_msg.prot_id
                  /\ result.val.cmd.cmd_id = call.rx_msg.cmd_id

\* a message of DUP_PROT_DESC with two attributes and a command id that the
\* descriptor does not have
C14_Witness ==
    /\ call.fn = "validate_msg"
    /\ call.rx_msg.prot_id = 172
    /\ call.rx_msg.cmd_id = 2
    /\ Len(call.rx_msg.att_arr) = 2
    /\ result = Err("UnknownCmdId")

-----------------------------------------------------------------------------
(* Scalar attributes.                                                      *)

\* the lengths a scalar type allows
LenFits(data_type, n) ==
    \/ data_type = "Uint8" /\ n = 1
    \/ data_type = "Uint16" /\ n = 2
    \/ data_type = "Uint32" /\ n = 4
    \/ data_type \in {"ByteArray", "String"} /\ n >= 1

\* the i-th descriptor is a scalar and its raw attribute is a leaf that is present
ScalarLeaf(desc_arr, rx_arr, i) ==
    /\ desc_arr[i][2].data_type # "Subattributes"
    /\ ~Absent(desc_arr, rx_arr, i)
    /\ ~RxOf(desc_arr, rx_arr, i).has_subatt
    /\ RxOf(desc_arr, rx_arr, i).payload.kind = "Data"

RECURSIVE WrongSizeReached(_, _)
\* a scalar leaf of a length its type does not allow, at a level that
\* validation enters, the attributes before it validating
WrongSizeReached(desc_arr, rx_arr) ==
    /\ Len(rx_arr) <= Len(desc_arr)
    /\ \E i \in 1..Len(desc_arr) :
         /\ PrecedingValidate(desc_arr, rx_arr, i)
         /\ \/ /\ ScalarLeaf(desc_arr, rx_arr, i)
               /\ ~LenFits(desc_arr[i][2].data_type, RxOf(desc_arr, rx_arr, i).payload_size)
            \/ /\ PresentNode(desc_arr, rx_arr, i)
               /\ WrongSizeReached(SubDescs(desc_arr, i), SubAtts(desc_arr, rx_arr, i))

RECURSIVE ScalarsCopied(_, _, _)
\* every scalar leaf has a length its type allows and its bytes at its
\* position in the validated array, in present nodes too
ScalarsCopied(desc_arr, rx_arr, valid_arr) ==
    \A i \in 1..Len(desc_arr) :
        /\ ScalarLeaf(desc_arr, rx_arr, i) =>
              /\ LenFits(desc_arr[i][2].data_type, RxOf(desc_arr, rx_arr, i).payload_size)
              /\ i <= Len(valid_arr)
              /\ valid_arr[i] = LcsfValidAtt(ValidData(RxOf(desc_arr, rx_arr, i).payload.data))
        /\ PresentNode(desc_arr, rx_arr, i) =>
              /\ i <= Len(valid_arr)
              /\ ScalarsCopied(SubDescs(desc_arr, i), SubAtts(desc_arr, rx_arr, i),
                               valid_arr[i].payload.arr)

-----------------------------------------------------------------------------
-----------------------------------------------------------------------------
(* Shape of a validated command.                                           *)

\* a validated attribute that is a node with children
ValidNode(valid_att) ==
    valid_att.payload.kind = "SubattArr" /\ valid_att.payload.arr # <<>>

NonEmptyValid(valid_att) ==
    IF valid_att.payload.kind = "SubattArr"
    THEN valid_att.payload.arr # <<>>
    ELSE valid_att.payload.data # <<>>

RECURSIVE Aligned(_, _, _)
\* the validated array has one entry for each descriptor, the i-th for the
\* i-th descriptor: the placeholder when the attribute is absent, the bytes of
\* a leaf, the aligned children of a node
Aligned(desc_arr, rx_arr, valid_arr) ==
    /\ Len(valid_arr) = Len(desc_arr)
    /\ \A i \in 1..Len(desc_arr) :
         /\ Absent(desc_arr, rx_arr, i) => valid_arr[i] = EmptyValidAtt
         /\ ScalarLeaf(desc_arr, rx_arr, i) =>
               valid_arr[i] = LcsfValidAtt(ValidData(RxOf(desc_arr, rx_arr, i).payload.data))
         /\ PresentNode(desc_arr, rx_arr, i) =>
               /\ valid_arr[i].payload.kind = "SubattArr"
               /\ Aligned(SubDescs(desc_arr, i), SubAtts(desc_arr, rx_arr, i),
                          valid_arr[i].payload.arr)
         /\ ValidNode(valid_arr[i]) => PresentNode(desc_arr, rx_arr, i)

-----------------------------------------------------------------------------
(* C16: after a successful validate_msg the validated command has as many  *)
(* attributes as the command descriptor, the i-th for the i-th descriptor, *)
(* and so has every present node for its child descriptors, recursively;   *)
(* an absent optional attribute is an empty placeholder at its position.   *)
C16_Alignment ==
    (call.fn = "validate_msg" /\ result.tag = "Ok") =>
        Aligned(TopDescs, TopAtts, result.val.cmd.att_arr)

\* a message of OPT_PROT_DESC accepted without its optional attribute 2 and
\* without the optional child 2 of its node 3
C16_Witness ==
    /\ call.fn = "validate_msg"
    /\ call.rx_msg.prot_id = 174
    /\ result.tag = "Ok"
    /\ Len(TopAtts) = 2
    /\ result.val.cmd.att_arr[2] = EmptyValidAtt
    /\ ValidNode(result.val.cmd.att_arr[3])
    /\ result.val.cmd.att_arr[3].payload.arr[2] = EmptyValidAtt

-----------------------------------------------------------------------------
(* Mandatory attributes of a validated command.                            *)

RECURSIVE MandatoryNonEmpty(_, _)
\* every attribute of a mandatory descriptor is not empty, in nodes too
MandatoryNonEmpty(desc_arr, valid_arr) ==
    \A i \in 1..Min(Len(desc_arr), Len(valid_arr)) :
        /\ ~desc_arr[i][2].is_optional => NonEmptyValid(valid_arr[i])
        /\ ValidNode(valid_arr[i]) =>
              MandatoryNonEmpty(desc_arr[i][2].subatt_desc_arr, valid_arr[i].payload.arr)

-----------------------------------------------------------------------------
(* encode_valid called on its own, with the command descriptors of          *)
(* APP_PROT_DESC and OPT_PROT_DESC and the commands an application can      *)
(* build for them.                                                         *)

\* sub-attributes given to encode_valid: absent (as bytes, as a list), a byte,
\* two bytes
ValidSubs ==
    { LcsfValidAtt(ValidData(<<>>)), LcsfValidAtt(ValidSubattArr(<<>>)),
      LcsfValidAtt(ValidData(<<7>>)), LcsfValidAtt(ValidData(<<7, 8>>)) }

ValidTops ==
    { LcsfValidAtt(ValidData(d)) : d \in {<<>>, <<7>>, <<7, 8>>} }
    \cup { LcsfValidAtt(ValidSubattArr(arr)) : arr \in SeqsUpTo(ValidSubs, MaxAtt) }

\* (protocol id, command id) of the descriptors encoded against
EncCmds == { <<171, 1>>, <<171, 2>>, <<174, 1>> }

\* commands of up to AppAttNb attributes, and commands of three attributes for
\* OPT_PROT_DESC
ValidCmds ==
    { LcsfValidCmd(c, arr) : c \in {1, 2}, arr \in SeqsUpTo(ValidTops, AppAttNb) }
    \cup { LcsfValidCmd(1, <<a, b, LcsfValidAtt(ValidSubattArr(arr))>>) :
             a \in {LcsfValidAtt(ValidData(<<7>>))},
             b \in {LcsfValidAtt(ValidData(<<>>)), LcsfValidAtt(ValidData(<<7, 8>>))},
             arr \in SeqsUpTo(ValidSubs, MaxAtt) }

EncodeValid ==
    /\ call = NoCall
    /\ \E pc \in EncCmds, valid_cmd \in ValidCmds :
        LET cmds == Deref(ValidTable[pc[1]]).cmd_desc_arr
            cmd_desc == cmds[MapIndex(cmds, pc[2])][2]
        IN  /\ call' = [fn |-> "encode_valid", prot_id |-> pc[1], cmd_desc |-> cmd_desc,
                        valid_cmd |-> valid_cmd]
            /\ result' = encode_valid(pc[1], cmd_desc, valid_cmd)
            /\ UNCHANGED <<core_vars, sent, dispatched>>

NextEncValid == EncodeValid

SpecEncValid == InitValid /\ [][NextEncValid]_vars

-----------------------------------------------------------------------------
(* Vocabulary of the properties of encode_valid.                           *)

EncDescs == call.cmd_desc.att_desc_arr

EncAtts == call.valid_cmd.att_arr

\* a validated attribute that is a present node for a node descriptor
EncNode(att_desc, valid_att) ==
    att_desc.data_type = "Subattributes" /\ ValidNode(valid_att)

RECURSIVE Refused(_, _)
\* what encode_valid is to refuse: a number of attributes that is not the
\* descriptor's, at the top level or in a present node; an empty attribute of
\* a mandatory descriptor; bytes of a length the scalar type does not allow
Refused(desc_arr, valid_arr) ==
    \/ Len(valid_arr) # Len(desc_arr)
    \/ \E i \in 1..Len(desc_arr) :
         \/ ~desc_arr[i][2].is_optional /\ ~NonEmptyValid(valid_arr[i])
         \/ /\ desc_arr[i][2].data_type # "Subattributes"
            /\ valid_arr[i].payload.kind = "Data"
            /\ valid_arr[i].payload.data # <<>>
            /\ ~LenFits(desc_arr[i][2].data_type, Len(valid_arr[i].payload.data))
         \/ /\ EncNode(desc_arr[i][2], valid_arr[i])
            /\ Refused(desc_arr[i][2].subatt_desc_arr, valid_arr[i].payload.arr)

RECURSIVE EmptyIsPlaceholder(_, _, _)
\* every empty attribute has an optional descriptor and a raw attribute of
\* payload_size 0, in present nodes too
EmptyIsPlaceholder(desc_arr, valid_arr, raw_arr) ==
    \A i \in 1..Len(valid_arr) :
        /\ ~NonEmptyValid(valid_arr[i]) =>
              /\ desc_arr[i][2].is_optional
              /\ raw_arr[i][2].payload_size = 0
        /\ EncNode(desc_arr[i][2], valid_arr[i]) =>
              EmptyIsPlaceholder(desc_arr[i][2].subatt_desc_arr, valid_arr[i].payload.arr,
                                 raw_arr[i][2].payload.arr)

-----------------------------------------------------------------------------
(* C18: encode_valid returns None whenever the command has not as many     *)
(* attributes as the descriptor, a present node has not as many children   *)
(* as its descriptor, an attribute of a mandatory descriptor is empty      *)
(* (empty bytes or empty child list) at any level, or non-empty bytes have *)
(* a length their scalar type does not allow; an empty attribute is        *)
(* accepted only for an optional descriptor and gives a raw attribute of   *)
(* payload_size 0.                                                         *)
C18_EncodeValidRefuses ==
    call.fn = "encode_valid" =>
        /\ Refused(EncDescs, EncAtts) => result = None
        /\ result.tag = "Some" =>
              EmptyIsPlaceholder(EncDescs, EncAtts, result.val.att_arr)

-----------------------------------------------------------------------------
(* Counts of a raw message.                                                *)

\* the number of attributes of arr that encode_att_rec writes
NonZero(arr) == Cardinality({i \in 1..Len(arr) : arr[i][2].payload_size # 0})

RECURSIVE CountsAgree(_)
\* the payload_size of every node is the number of its children that are written
CountsAgree(arr) ==
    \A i \in 1..Len(arr) :
        arr[i][2].payload.kind = "SubattArr" =>
            /\ arr[i][2].payload_size = NonZero(arr[i][2].payload.arr)
            /\ CountsAgree(arr[i][2].payload.arr)

RECURSIVE StripZero(_)
\* arr without its attributes of payload_size 0, at every level
StripZero(arr) ==
    IF arr = <<>> THEN <<>>
    ELSE IF arr[1][2].payload_size = 0 THEN StripZero(Tail(arr))
    ELSE << <<arr[1][1], [arr[1][2] EXCEPT !.payload.arr = StripZero(@)]>> >>
         \o StripZero(Tail(arr))

-----------------------------------------------------------------------------
(* C19: encode_buff writes nothing for an attribute of payload_size 0, and *)
(* in every raw message that encode_valid returns att_nb is the number of  *)
(* top-level attributes of non-zero payload_size and the payload_size of   *)
(* every node is the number of its children of non-zero payload_size.      *)
C19_CountsAgree ==
    (call.fn = "encode_valid" /\ result.tag = "Some") =>
        /\ \A mode \in Modes :
              encode_buff(mode, result.val) =
                  encode_buff(mode, [result.val EXCEPT !.att_arr = StripZero(@)])
        /\ result.val.att_nb = NonZero(result.val.att_arr)
        /\ CountsAgree(result.val.att_arr)

RECURSIVE KindsMatch(_, _)
\* every attribute carries the payload variant of its descriptor
KindsMatch(desc_arr, valid_arr) ==
    /\ Len(valid_arr) = Len(desc_arr)
    /\ \A i \in 1..Len(desc_arr) :
          IF desc_arr[i][2].data_type = "Subattributes"
          THEN /\ valid_arr[i].payload.kind = "SubattArr"
               /\ valid_arr[i].payload.arr # <<>> =>
                     KindsMatch(desc_arr[i][2].subatt_desc_arr, valid_arr[i].payload.arr)
          ELSE valid_arr[i].payload.kind = "Data"

\* C18: encode_valid has returned a raw message for a command in which an
\* attribute of a mandatory descriptor is empty.
C18_Witness ==
    /\ call.fn = "encode_valid"
    /\ result.tag = "Some"
    /\ \E i \in 1..Len(EncDescs) :
          ~EncDescs[i][2].is_optional /\ ~NonEmptyValid(EncAtts[i])

\* C19: encode_valid has returned, for a command whose payload variants are
\* those of the descriptor, a raw message whose att_nb counts an attribute
\* that is not written.
C19_Witness ==
    /\ call.fn = "encode_valid"
    /\ result.tag = "Some"
    /\ KindsMatch(EncDescs, EncAtts)
    /\ result.val.att_nb > NonZero(result.val.att_arr)

-----------------------------------------------------------------------------
(* The error encoder: one call of encode_error from idle.                  *)

\* the values of LcsfEpLocEnum
LcsfEpLocs == {DecodeError, ValidationError}

\* error_type: u8
ErrorTypes == 0..255

EncodeError ==
    /\ call = NoCall
    /\ \E mode \in Modes, error_loc \in LcsfEpLocs, error_type \in ErrorTypes :
        /\ call' = [fn |-> "encode_error", lcsf_mode |-> mode,
                    error_loc |-> error_loc, error_type |-> error_type]
        /\ result' = encode_error(mode, error_loc, error_type)
        /\ UNCHANGED <<core_vars, sent, dispatched>>

NextError == EncodeError

SpecError == InitValid /\ [][NextError]_vars

\* the message the error sub-protocol fixes
FixedErrorMsg(mode, error_loc, error_type) ==
    [prot_id |-> IF mode = "Small" THEN 255 ELSE 65535,
     cmd_id |-> 0,
     att_nb |-> 2,
     att_arr |-> << <<0, [has_subatt |-> FALSE, payload_size |-> 1,
                          payload |-> Data(<<error_loc>>)]>>,
                    <<1, [has_subatt |-> FALSE, payload_size |-> 1,
                          payload |-> Data(<<error_type>>)]>> >>]

\* the bytes of the fixed message, field by field
FixedErrorBytes(mode, error_loc, error_type) ==
    IF mode = "Small"
    THEN <<255, 0, 2, 0, 1, error_loc, 1, 1, error_type>>
    ELSE <<255, 255, 0, 0, 2, 0, 0, 0, 1, 0, error_loc, 1, 0, 1, 0, error_type>>

-----------------------------------------------------------------------------
(* C20: for every mode, location and type code, encode_error returns the   *)
(* encoding of the fixed message {prot_id 0x00FF (Small) or 0xFFFF         *)
(* (Normal), cmd_id 0, att_nb 2, attribute 0 = the location in one byte,   *)
(* attribute 1 = the type in one byte}; encode_error(Small,                *)
(* ValidationError, 5) is ff 00 02 00 01 01 01 01 05 and                   *)
(* encode_error(Normal, DecodeError, 0) is                                 *)
(* ff ff 00 00 02 00 00 00 01 00 00 01 00 01 00 00.                        *)
C20_EncodeError ==
    call.fn = "encode_error" =>
        /\ result = encode_buff(call.lcsf_mode,
                        FixedErrorMsg(call.lcsf_mode, call.error_loc, call.error_type))
        /\ result = FixedErrorBytes(call.lcsf_mode, call.error_loc, call.error_type)
        /\ (call.lcsf_mode = "Small" /\ call.error_loc = ValidationError
                /\ call.error_type = 5) =>
              result = <<255, 0, 2, 0, 1, 1, 1, 1, 5>>
        /\ (call.lcsf_mode = "Normal" /\ call.error_loc = DecodeError
                /\ call.error_type = 0) =>
              result = <<255, 255, 0, 0, 2, 0, 0, 0, 1, 0, 0, 1, 0, 1, 0, 0>>

\* C20: encode_error(Small, ValidationError, 5) has returned.
C20_Witness ==
    /\ call = [fn |-> "encode_error", lcsf_mode |-> "Small",
               error_loc |-> ValidationError, error_type |-> 5]
    /\ result = <<255, 0, 2, 0, 1, 1, 1, 1, 5>>

-----------------------------------------------------------------------------
(* Received error reports (lcsf_error.rs process_error).                   *)

\* process_error that reads every location as the validator
process_error_validator_only(valid_cmd) ==
    IF \/ Len(valid_cmd.att_arr) < 2
       \/ \E i \in 1..2 : /\ valid_cmd.att_arr[i].payload.kind = "Data"
                          /\ valid_cmd.att_arr[i].payload.data = <<>>
    THEN Panicked
    ELSE LET err_type == IF valid_cmd.att_arr[LCSF_EP_TYPE_ATT_ID + 1].payload.kind = "Data"
                         THEN valid_cmd.att_arr[LCSF_EP_TYPE_ATT_ID + 1].payload.data[1]
                         ELSE 0
         IN  Returned(<<"Validator",
                        CASE err_type = 0 -> "Unknown protocol id"
                          [] err_type = 1 -> "Unknown command id"
                          [] err_type = 2 -> "Unknown attribute id"
                          [] err_type = 3 -> "Too many attributes received"
                          [] err_type = 4 -> "Missing mandatory attribute"
                          [] err_type = 5 -> "Wrong attribute data type"
                          [] OTHER -> "Unknown">>)

\* process_error: the two texts, or the panic of an index out of range
\* (att_arr[..] on a short array, data[0] on empty bytes)
process_error(valid_cmd) ==
    IF \/ Len(valid_cmd.att_arr) < 2
       \/ \E i \in 1..2 : /\ valid_cmd.att_arr[i].payload.kind = "Data"
                          /\ valid_cmd.att_arr[i].payload.data = <<>>
    THEN Panicked
    ELSE LET err_loc  == IF valid_cmd.att_arr[LCSF_EP_LOC_ATT_ID + 1].payload.kind = "Data"
                         THEN valid_cmd.att_arr[LCSF_EP_LOC_ATT_ID + 1].payload.data[1]
                         ELSE 0
             err_type == IF valid_cmd.att_arr[LCSF_EP_TYPE_ATT_ID + 1].payload.kind = "Data"
                         THEN valid_cmd.att_arr[LCSF_EP_TYPE_ATT_ID + 1].payload.data[1]
                         ELSE 0
         IN  CASE err_loc = 0 ->
                    Returned(<<"Decoder",
                               CASE err_type = 0 -> "Bad format"
                                 [] err_type = 1 -> "Overflow"
                                 [] OTHER -> "Unknown">>)
               [] err_loc = 1 ->
                    Returned(<<"Validator",
                               CASE err_type = 0 -> "Unknown protocol id"
                                 [] err_type = 1 -> "Unknown command id"
                                 [] err_type = 2 -> "Unknown attribute id"
                                 [] err_type = 3 -> "Too many attributes received"
                                 [] err_type = 4 -> "Missing mandatory attribute"
                                 [] err_type = 5 -> "Wrong attribute data type"
                                 [] OTHER -> "Unknown">>)
               [] OTHER -> Returned(<<"Unknown", "Unknown">>)

\* location bytes of the error packets received: the two values of
\* LcsfEpLocEnum, and two values only another implementation can send
RxErrorLocs == {DecodeError, ValidationError, 2, 255}

\* a core receives an error packet of its own mode
ReceiveError ==
    /\ call = NoCall
    /\ \E error_loc \in RxErrorLocs, error_type \in ErrorTypes :
        LET buff == encode_error(lcsf_mode, error_loc, error_type)
        IN  Record([fn |-> "receive_buff", buff |-> buff,
                    error_loc |-> error_loc, error_type |-> error_type],
                   receive_buff(self, buff))

NextErrRx ==
    \/ UpdateErrCb
    \/ ReceiveError
    \/ Return

SpecErrRx == Init /\ [][NextErrRx]_vars

\* the texts of the error taxonomy
DecoderTexts == <<"Bad format", "Overflow">>

ValidatorTexts ==
    <<"Unknown protocol id", "Unknown command id", "Unknown attribute id",
      "Too many attributes received", "Missing mandatory attribute",
      "Wrong attribute data type">>

ExpectedTexts(error_loc, error_type) ==
    IF error_loc = 0
    THEN <<"Decoder", IF error_type < 2 THEN DecoderTexts[error_type + 1] ELSE "Unknown">>
    ELSE IF error_loc = 1
    THEN <<"Validator", IF error_type < 6 THEN ValidatorTexts[error_type + 1] ELSE "Unknown">>
    ELSE <<"Unknown", "Unknown">>

\* C21: a core with the default error descriptor that receives the error
\* packet of its mode for a location and a type code returns true from
\* receive_buff, sends nothing, and has handed the registered error callback,
\* once, a command from which process_error yields the texts of the pair:
\* Decoder with Bad format (0), Overflow (1); Validator with Unknown protocol
\* id (0), Unknown command id (1), Unknown attribute id (2), Too many
\* attributes received (3), Missing mandatory attribute (4), Wrong attribute
\* data type (5); Unknown for every other type code, and Unknown, Unknown for
\* every other location.
C21_ProcessError ==
    (call.fn = "receive_buff" /\ "error_loc" \in DOMAIN call) =>
        /\ result = Returned(TRUE)
        /\ sent = <<>>
        /\ Len(dispatched) = 1
        /\ dispatched[1].cb = prot_cb_map[err_prot_id(lcsf_mode)]
        /\ process_error(dispatched[1].valid_cmd) =
               Returned(ExpectedTexts(call.error_loc, call.error_type))

\* C21: a Normal core has received the validator's report of a missing
\* mandatory attribute and handed it to the default callback.
C21_Witness ==
    /\ call.fn = "receive_buff"
    /\ lcsf_mode = "Normal"
    /\ call.buff = encode_error("Normal", ValidationError, 4)
    /\ Len(dispatched) = 1
    /\ dispatched[1].cb = "def_process_error"
    /\ process_error(dispatched[1].valid_cmd) =
           Returned(<<"Validator", "Missing mandatory attribute">>)

-----------------------------------------------------------------------------
(* The two wire modes side by side.                                        *)

\* a field of the wire: one byte (Small), two bytes little-endian (Normal)
WireField(mode, v) ==
    IF mode = "Small" THEN <<v>> ELSE <<v % 256, v \div 256>>

\* an attribute id with the sub-attribute flag in bit 7 of its last byte
WireAttId(mode, att_id, flag) ==
    LET f == IF flag THEN 128 ELSE 0
    IN  IF mode = "Small" THEN <<att_id + f>> ELSE <<att_id % 256, att_id \div 256 + f>>

RECURSIVE WireAtts(_, _)
\* the attributes of arr written one after the other, those of payload_size 0
\* left out
WireAtts(mode, arr) ==
    IF arr = <<>> THEN <<>>
    ELSE (IF arr[1][2].payload_size = 0 THEN <<>>
          ELSE WireAttId(mode, arr[1][1], arr[1][2].has_subatt)
               \o WireField(mode, arr[1][2].payload_size)
               \o (IF arr[1][2].has_subatt
                   THEN WireAtts(mode, arr[1][2].payload.arr)
                   ELSE arr[1][2].payload.data))
         \o WireAtts(mode, Tail(arr))

WireMsg(mode, msg) ==
    WireField(mode, msg.prot_id) \o WireField(mode, msg.cmd_id)
        \o WireField(mode, msg.att_nb) \o WireAtts(mode, msg.att_arr)

\* the decodings of msg sent in each mode
ViaSmall == decode_buff("Small", encode_buff("Small", call.msg))

ViaNormal == decode_buff("Normal", encode_buff("Normal", call.msg))

\* the test vectors: both decode to TEST_RAW_MSG and both are produced from it
TestVectorsAgree ==
    /\ decode_buff("Small", RX_MSG_SMALL) = Ok(TEST_RAW_MSG)
    /\ decode_buff("Normal", RX_MSG_NORMAL) = Ok(TEST_RAW_MSG)
    /\ encode_buff("Small", TEST_RAW_MSG) = RX_MSG_SMALL
    /\ encode_buff("Normal", TEST_RAW_MSG) = RX_MSG_NORMAL

-----------------------------------------------------------------------------
(* C22: Small writes protocol id, command id, attribute count, attribute   *)
(* id and payload size in one byte each with the sub-attribute flag in bit *)
(* 7 of the id byte, Normal in two bytes little-endian with the flag in    *)
(* bit 7 of the id's high byte; for every raw message whose ids, counts    *)
(* and sizes fit Small mode, decoding its Small encoding in Small mode and *)
(* its Normal encoding in Normal mode gives the same result.  As stated it *)
(* fails: a message whose has_subatt or payload_size disagrees with its    *)
(* payload is written as bytes that the two modes read differently.        *)
C22_ModesAgree_AsStated ==
    (call.fn = "encode_buff" /\ FitsMode("Small", call.msg)) => ViaSmall = ViaNormal

(* C22, amended: the same for every raw message in which, at every level,  *)
(* has_subatt and payload_size of each attribute agree with its payload;   *)
(* the encodings of such a message are the field-by-field layouts of the   *)
(* two modes, and RX_MSG_SMALL and RX_MSG_NORMAL both decode to, and are   *)
(* both produced from, TEST_RAW_MSG.                                       *)
C22_ModesAgree ==
    (call.fn = "encode_buff" /\ FitsMode("Small", call.msg)
        /\ Consistent(call.msg.att_arr)) =>
        /\ \A mode \in Modes : encode_buff(mode, call.msg) = WireMsg(mode, call.msg)
        /\ ViaSmall = ViaNormal
        /\ TestVectorsAgree

\* C22: a message with a nested attribute, fitting Small mode, has been
\* encoded, and both modes give it back.
C22_Witness ==
    /\ call.fn = "encode_buff"
    /\ FitsMode("Small", call.msg)
    /\ Consistent(call.msg.att_arr)
    /\ HasNestedAtt(call.msg)
    /\ Len(call.msg.att_arr) >= 2
    /\ ViaSmall = Ok(call.msg)
    /\ ViaNormal = Ok(call.msg)

-----------------------------------------------------------------------------
(* C23: receive_raw returns Some(msg) exactly when decode_buff of the      *)
(* core's mode gives Ok(msg), whatever is registered (also for a protocol  *)
(* id that is not), and invokes no callback; when decode_buff fails it     *)
(* returns None and gives fn_send the decoder's error packet, once, if     *)
(* do_gen_err is set, and nothing if it is not.  send_raw gives fn_send    *)
(* encode_buff(mode, msg), once, whatever is registered.                   *)
C23_RawBypass ==
    /\ call.fn = "receive_raw" =>
          LET dec == decode_buff(lcsf_mode, call.buff)
          IN  /\ dispatched = <<>>
              /\ IF dec.tag = "Ok"
                 THEN result = Returned(Some(dec.val)) /\ sent = <<>>
                 ELSE /\ result = Returned(None)
                      /\ sent = IF do_gen_err
                                THEN <<encode_error(lcsf_mode, DecodeError,
                                                    DecodeErrCode(dec.val))>>
                                ELSE <<>>
    /\ call.fn = "send_raw" =>
          /\ result = Returned(Unit)
          /\ dispatched = <<>>
          /\ sent = <<encode_buff(lcsf_mode, call.raw_msg)>>

\* C23: receive_raw has returned a message of a protocol that is not
\* registered, in a core where an application protocol is.
C23_Witness ==
    /\ call.fn = "receive_raw"
    /\ result.tag = "Returned"
    /\ result.val.tag = "Some"
    /\ result.val.val.prot_id \notin DOMAIN prot_desc_map
    /\ result.val.val.att_arr # <<>>
    /\ 171 \in DOMAIN prot_desc_map

-----------------------------------------------------------------------------
(* Two cores back to back: one sends a command, its peer, a core of the    *)
(* same mode with the same registrations, receives the bytes.  The peer    *)
(* being in the state of the sender, the same variables hold both.         *)

\* commands sent over the link: those of the core's specification, and
\* command 2 of APP_PROT_DESC with the optional child of its node present and
\* absent
LinkValidCmds ==
    CoreValidCmds \cup
    { LcsfValidCmd(2, <<LcsfValidAtt(ValidSubattArr(<<LcsfValidAtt(ValidData(<<9>>))>>))>>),
      LcsfValidCmd(2, <<LcsfValidAtt(ValidSubattArr(<<LcsfValidAtt(ValidData(<<>>))>>))>>) }

LinkSend ==
    /\ call = NoCall
    /\ \E prot_id \in CoreProtIds, valid_cmd \in LinkValidCmds :
        Record([fn |-> "send_cmd", prot_id |-> prot_id, valid_cmd |-> valid_cmd],
               send_cmd(self, prot_id, valid_cmd))

\* fn_send of the sender is receive_buff of the peer
Deliver ==
    /\ call.fn = "send_cmd"
    /\ result = Returned(Unit)
    /\ Len(sent) = 1
    /\ Record([fn |-> "receive_buff", buff |-> sent[1],
               sent_prot_id |-> call.prot_id, sent_cmd |-> call.valid_cmd],
              receive_buff(self, sent[1]))

NextLink ==
    \/ AddProtocol
    \/ LinkSend
    \/ Deliver
    \/ Return

SpecLink == Init /\ [][NextLink]_vars

RECURSIVE NormAbsent(_)
\* the attributes of arr with every absent one (empty bytes, empty child
\* list) written Data([])
NormAbsent(arr) ==
    [i \in 1..Len(arr) |->
        IF ~NonEmptyValid(arr[i]) THEN LcsfValidAtt(ValidData(<<>>))
        ELSE IF arr[i].payload.kind = "SubattArr"
        THEN LcsfValidAtt(ValidSubattArr(NormAbsent(arr[i].payload.arr)))
        ELSE arr[i]]

\* the peer has received what a send_cmd gave to fn_send
Delivered == call.fn = "receive_buff" /\ "sent_cmd" \in DOMAIN call

-----------------------------------------------------------------------------
(* C24: the bytes that send_cmd gives to fn_send for a command that        *)
(* encode_valid accepts against a registered descriptor are accepted by    *)
(* receive_buff of a peer with the same mode and the same registrations,   *)
(* and the callback of the peer gets a command equal to the one sent up to *)
(* the representation of absent optional attributes.                       *)
C24_EndToEnd ==
    Delivered =>
        /\ result = Returned(TRUE)
        /\ Len(dispatched) = 1
        /\ dispatched[1].cb = prot_cb_map[call.sent_prot_id]
        /\ dispatched[1].valid_cmd.cmd_id = call.sent_cmd.cmd_id
        /\ NormAbsent(dispatched[1].valid_cmd.att_arr) = NormAbsent(call.sent_cmd.att_arr)

\* C24: the peer has refused the bytes of command 2 of APP_PROT_DESC, sent
\* with its mandatory node present and the optional child of the node absent.
C24_Witness ==
    /\ Delivered
    /\ call.sent_prot_id = 171
    /\ prot_desc_map[171] = "APP_PROT_DESC"
    /\ call.sent_cmd =
           LcsfValidCmd(2, <<LcsfValidAtt(ValidSubattArr(<<LcsfValidAtt(ValidData(<<>>))>>))>>)
    /\ call.buff = IF lcsf_mode = "Small" THEN <<171, 2, 1>> ELSE <<171, 0, 2, 0, 1, 0>>
    /\ result = Returned(FALSE)
    /\ dispatched = <<>>

-----------------------------------------------------------------------------
(* Raw attributes whose has_subatt flag is not that of their descriptor.   *)

\* the i-th descriptor has a raw attribute, whose flag says node for a scalar
\* descriptor or leaf for a node descriptor
FlagMismatch(desc_arr, rx_arr, i) ==
    /\ ~Absent(desc_arr, rx_arr, i)
    /\ RxOf(desc_arr, rx_arr, i).has_subatt # (desc_arr[i][2].data_type = "Subattributes")

RECURSIVE FlagMismatchReached(_, _)
\* a flag mismatch at a level that validation enters, the attributes before
\* it validating
FlagMismatchReached(desc_arr, rx_arr) ==
    /\ Len(rx_arr) <= Len(desc_arr)
    /\ \E i \in 1..Len(desc_arr) :
         /\ PrecedingValidate(desc_arr, rx_arr, i)
         /\ \/ FlagMismatch(desc_arr, rx_arr, i)
            \/ /\ PresentNode(desc_arr, rx_arr, i)
               /\ FlagMismatchReached(SubDescs(desc_arr, i), SubAtts(desc_arr, rx_arr, i))

-----------------------------------------------------------------------------
(* C25: a present raw attribute whose has_subatt flag disagrees with the   *)
(* type of its descriptor is rejected with WrongAttDataType: has_subatt    *)
(* false for a Subattributes descriptor, has_subatt true for a scalar      *)
(* descriptor whatever the number of children.  Stated for an attribute    *)
(* that validation reaches (no earlier error).                             *)
C25_FlagMismatch ==
    (KnownCmd /\ FlagMismatchReached(TopDescs, TopAtts)) =>
        result = Err("WrongAttDataType")

\* C25: a message decode_buff can build, whose first attribute is a node of
\* one child where the descriptor, which lists every id once, has a Uint8,
\* was refused with UnknownAttId.
C25_Witness ==
    /\ KnownCmd
    /\ DistinctDescIds(TopDescs)
    /\ StructValid(call.rx_msg)
    /\ TopDescs # <<>>
    /\ TopDescs[1][2].data_type = "Uint8"
    /\ FlagMismatch(TopDescs, TopAtts, 1)
    /\ RxOf(TopDescs, TopAtts, 1).payload_size = 1
    /\ result = Err("UnknownAttId")

-----------------------------------------------------------------------------
(* Raw attributes that share an id at one level.                           *)

\* two attributes of the level have the same id
HasDupIds(rx_arr) ==
    \E i, j \in 1..Len(rx_arr) : i < j /\ rx_arr[i][1] = rx_arr[j][1]

RECURSIVE DupAnywhere(_)
\* at this level or in some node
DupAnywhere(rx_arr) ==
    \/ HasDupIds(rx_arr)
    \/ \E i \in 1..Len(rx_arr) : DupAnywhere(rx_arr[i][2].payload.arr)

\* the last occurrence of an id that the level holds
LastOccurrence(rx_arr, id) ==
    CHOOSE k \in 1..Len(rx_arr) :
        /\ rx_arr[k][1] = id
        /\ \A j \in (k + 1)..Len(rx_arr) : rx_arr[j][1] # id

RECURSIVE LastCopied(_, _, _)
\* each attribute of the validated array is made from the last raw attribute
\* of its id: the bytes of a leaf, the children of a node
LastCopied(desc_arr, rx_arr, valid_arr) ==
    /\ Len(valid_arr) = Len(desc_arr)
    /\ \A i \in 1..Len(desc_arr) :
          (\E k \in 1..Len(rx_arr) : rx_arr[k][1] = desc_arr[i][1]) =>
              LET last == rx_arr[LastOccurrence(rx_arr, desc_arr[i][1])][2]
              IN  IF desc_arr[i][2].data_type = "Subattributes"
                  THEN last.payload.kind = "SubattArr" =>
                          LastCopied(desc_arr[i][2].subatt_desc_arr, last.payload.arr,
                                     valid_arr[i].payload.arr)
                  ELSE last.payload.kind = "Data" =>
                          valid_arr[i] = LcsfValidAtt(ValidData(last.payload.data))

RECURSIVE LastOnly(_)
\* the level without the attributes that a later one of the same id follows
LastOnly(rx_arr) ==
    IF rx_arr = <<>> THEN <<>>
    ELSE IF \E j \in 2..Len(rx_arr) : rx_arr[j][1] = rx_arr[1][1]
    THEN LastOnly(Tail(rx_arr))
    ELSE <<rx_arr[1]>> \o LastOnly(Tail(rx_arr))

\* validate_msg of the message with only the last occurrence of each id at
\* the top level
LastOnlyResult ==
    validate_msg(call.prot_desc_map,
                 [call.rx_msg EXCEPT !.att_arr = LastOnly(@), !.att_nb = Len(LastOnly(TopAtts))])

-----------------------------------------------------------------------------
-----------------------------------------------------------------------------
(* Raw messages with their attributes in another order.                    *)

\* t with h put at each of its positions
Insertions(h, t) ==
    { SubSeq(t, 1, k) \o <<h>> \o SubSeq(t, k + 1, Len(t)) : k \in 0..Len(t) }

RECURSIVE Rearranged(_)
\* the arrays made of the attributes of arr in any order, the children of
\* every node in any order too
Rearranged(arr) ==
    IF arr = <<>> THEN {<<>>}
    ELSE UNION { Insertions(<<arr[1][1], [arr[1][2] EXCEPT !.payload.arr = c]>>, t) :
                    c \in Rearranged(arr[1][2].payload.arr),
                    t \in Rearranged(Tail(arr)) }

\* the ids of the descriptor attributes that are received, in descriptor order
RECURSIVE ReceivedInDescOrder(_, _)
ReceivedInDescOrder(desc_arr, rx_arr) ==
    IF desc_arr = <<>> THEN <<>>
    ELSE (IF \E k \in 1..Len(rx_arr) : rx_arr[k][1] = desc_arr[1][1]
          THEN <<desc_arr[1][1]>> ELSE <<>>)
         \o ReceivedInDescOrder(Tail(desc_arr), rx_arr)

-----------------------------------------------------------------------------
(* C27: validate_msg matches by id in descriptor order, not wire order:    *)
(* for a raw message whose attribute ids are unique at each level, the     *)
(* attributes of any level put in another order give the same result, the  *)
(* same validated command with the same protocol id or the same error.     *)
C27_OrderIndependent ==
    (call.fn = "validate_msg" /\ ~DupAnywhere(call.rx_msg.att_arr)) =>
        \A arr \in Rearranged(call.rx_msg.att_arr) :
            validate_msg(call.prot_desc_map, [call.rx_msg EXCEPT !.att_arr = arr]) = result

\* C27: a message of unique ids was accepted whose attributes, three at the
\* top level and two in a node, are not in the order of the descriptor.
C27_Witness ==
    /\ KnownCmd
    /\ ~DupAnywhere(TopAtts)
    /\ Len(TopAtts) >= 3
    /\ \E i \in 1..Len(TopAtts) : Len(TopAtts[i][2].payload.arr) >= 2
    /\ Ids(TopAtts) # ReceivedInDescOrder(TopDescs, TopAtts)
    /\ result.tag = "Ok"

-----------------------------------------------------------------------------
(* Two cores of the same mode wired back to back: what one gives to        *)
(* fn_send the other receives.  The cores are taken in the same state, so  *)
(* the same variables hold both; `hops` counts the packets that went over  *)
(* the wire since the application's input.                                 *)

\* most packets followed over the wire after one input
MaxHops == 3

Hops(c) == IF "hops" \in DOMAIN c THEN c.hops ELSE 0

\* fn_send of the core that received is receive_buff of its peer
Relay ==
    /\ call.fn = "receive_buff"
    /\ result.tag = "Returned"
    /\ Len(sent) = 1
    /\ Hops(call) < MaxHops
    /\ Record([fn |-> "receive_buff", buff |-> sent[1], hops |-> Hops(call) + 1],
              receive_buff(self, sent[1]))

NextPair ==
    \/ AddProtocol
    \/ ReceiveBuff
    \/ ReceiveError
    \/ Relay
    \/ Return

SpecPair == Init /\ [][NextPair]_vars

\* the error protocol of the core's mode has the descriptor LcsfCore::new gave it
DefaultErrDesc == prot_desc_map[err_prot_id(lcsf_mode)] = "LCSF_EP_PROT_DESC"

-----------------------------------------------------------------------------
(* C28: a core with the default error descriptor that receives a buffer    *)
(* made by encode_error in its own mode gives nothing to fn_send, also     *)
(* when do_gen_err is set; so of two cores of the same mode wired back to  *)
(* back, one error packet at most goes over the wire after an input, and   *)
(* nothing after it.                                                       *)
C28_NoErrorLoop ==
    (call.fn = "receive_buff" /\ DefaultErrDesc) =>
        /\ "error_loc" \in DOMAIN call => sent = <<>>
        /\ Hops(call) <= 1
        /\ Hops(call) = 1 => (result = Returned(TRUE) /\ sent = <<>>)

\* C28: with do_gen_err set, the peer has received the error packet that a
\* bad buffer provoked, handed it to the default callback and sent nothing.
C28_Witness ==
    /\ call.fn = "receive_buff"
    /\ Hops(call) = 1
    /\ do_gen_err
    /\ DefaultErrDesc
    /\ 171 \in DOMAIN prot_desc_map
    /\ call.buff = encode_error(lcsf_mode, ValidationError, 4)
    /\ result = Returned(TRUE)
    /\ sent = <<>>
    /\ Len(dispatched) = 1
    /\ dispatched[1].cb = "def_process_error"

-----------------------------------------------------------------------------
(* The receive path on buffers of every kind: the decoder on its own, on   *)
(* arbitrary and on large buffers, and the two receiving methods of a core.*)

\* nesting depth and attribute count of the large messages; their leaf has
\* Large * Large - 1 bytes
Large == 16

RECURSIVE NestedNode(_)
\* a leaf under n nodes
NestedNode(n) ==
    IF n = 0 THEN Leaf(<<7>>) ELSE Node(<< <<1, NestedNode(n - 1)>> >>)

LargeMsgs ==
    { LcsfRawMsg(171, 18, 1, << <<1, NestedNode(Large)>> >>),
      LcsfRawMsg(171, 18, 1, << <<1, Leaf([i \in 1..(Large * Large - 1) |-> 7])>> >>),
      LcsfRawMsg(171, 18, Large, [i \in 1..Large |-> <<i, Leaf(<<7>>)>>]) }

\* the large messages on the wire, whole and without their last byte
LargeBufs ==
    UNION { {encode_buff(m, msg), SubSeq(encode_buff(m, msg), 1, Len(encode_buff(m, msg)) - 1)} :
            m \in Modes, msg \in LargeMsgs }

DecodeLarge ==
    /\ call = NoCall
    /\ \E m \in Modes, b \in LargeBufs :
        /\ call' = [fn |-> "decode_buff", mode |-> m, buffer |-> b]
        /\ result' = decode_buff(m, b)
        /\ UNCHANGED <<core_vars, sent, dispatched>>

NextRx ==
    \/ DecodeBuff
    \/ DecodeLarge
    \/ ReceiveBuff
    \/ ReceiveRaw
    \/ Return

SpecRx == Init /\ [][NextRx]_vars

\* the decoder's error packet of type code 0
FormatErrPacket(mode) ==
    IF mode = "Small" THEN <<255, 0, 2, 0, 1, 0, 1, 1, 0>>
    ELSE <<255, 255, 0, 0, 2, 0, 0, 0, 1, 0, 0, 1, 0, 1, 0, 0>>

-----------------------------------------------------------------------------
(* C29: decode_buff never returns OverflowErr: every failure is FormatErr  *)
(* and is a framing violation, no nesting depth, attribute count or        *)
(* payload size being refused for being too large; so the only decoder     *)
(* error packet that receive_buff (and receive_raw) gives to fn_send has   *)
(* type code 0.                                                            *)
C29_NoOverflowErr ==
    /\ call.fn = "decode_buff" =>
          /\ result # Err("OverflowErr")
          /\ result.tag = "Err" =>
                (result = Err("FormatErr") /\ ~ExactFrame(call.mode, call.buffer))
          /\ ExactFrame(call.mode, call.buffer) => result.tag = "Ok"
    /\ (call.fn \in {"receive_buff", "receive_raw"} /\ Stage1.tag = "Err") =>
          /\ Stage1 = Err("FormatErr")
          /\ sent = IF do_gen_err THEN <<FormatErrPacket(lcsf_mode)>> ELSE <<>>

\* C29: a message of Large attributes has been decoded in Normal mode.
C29_Witness ==
    /\ call.fn = "decode_buff"
    /\ call.mode = "Normal"
    /\ result.tag = "Ok"
    /\ result.val.att_nb = Large
    /\ Len(result.val.att_arr) = Large

-----------------------------------------------------------------------------
(* The core in use, with a receive_buff called a second time on the same   *)
(* bytes as soon as it has returned.                                       *)

Repeat ==
    /\ call.fn = "receive_buff"
    /\ "prev" \notin DOMAIN call
    /\ result.tag = "Returned"
    /\ Record([fn |-> "receive_buff", buff |-> call.buff,
               prev |-> [ret |-> result, sent |-> sent, dispatched |-> dispatched]],
              receive_buff(self, call.buff))

NextFrame ==
    \/ Next
    \/ Repeat

SpecFrame == Init /\ [][NextFrame]_vars

\* the methods that take &self
SelfMethods == {"receive_buff", "send_cmd", "receive_raw", "send_raw"}

-----------------------------------------------------------------------------
====
